---- MODULE Spec2Model ----
(***************************************************************************)
(* Blunder Butler: the evaluation-and-classification pipeline.             *)
(*                                                                         *)
(* Spec         analyze_all_games in single-process mode, run after run:   *)
(*              the position cache (memory and file), the game cache,      *)
(*              engine failures.                                           *)
(* SpecPool     analyze_all_games in worker-pool mode, one run.            *)
(* SpecDetect   detect_phase as a pure function.                           *)
(* SpecPhase    label_phases as a pure function.                           *)
(* SpecClassify classify_move as a pure function.                          *)
(* SpecKey      make_cache_key and engine_settings_hash.                   *)
(* SpecCache    write_cache_entry and load_cache on one cache file.        *)
(* SpecTime     compute_time_stats as a pure function.                     *)
(* SpecMotif    compute_summary: the six motif detectors and the phase     *)
(*              statistics.                                                *)
(***************************************************************************)
EXTENDS Integers, Sequences, FiniteSets, TLC

(***************************************************************************)
(* Bounds of the model.                                                    *)
(***************************************************************************)
NumGames == 2
NumWorkers == 2
MaxRuns == 2

(***************************************************************************)
(* Program constants.                                                      *)
(***************************************************************************)
CLAMP == 1500
CACHE_VERSION == "1"
STARTING_FEN == <<>>

\* Python's None for an absent clock sample (clock samples are seconds >= 0).
NoClock == 0 - 1

Max(a, b) == IF a >= b THEN a ELSE b
Min(a, b) == IF a <= b THEN a ELSE b

\* sum(...) and the concatenation of a list of lists.
RECURSIVE SumSeq(_)
SumSeq(s) == IF s = <<>> THEN 0 ELSE Head(s) + SumSeq(Tail(s))

RECURSIVE Flatten(_)
Flatten(s) == IF s = <<>> THEN <<>> ELSE Head(s) \o Flatten(Tail(s))

(***************************************************************************)
(* models.py: enums (member name / serialised value), Eval, MoveAnalysis.  *)
(***************************************************************************)
ColorValue(c) == IF c = "WHITE" THEN "white" ELSE "black"
ColorOf(v) == IF v = "white" THEN "WHITE" ELSE "BLACK"

MoveFlagValue(f) ==
    CASE f = "BEST" -> "best"
      [] f = "GOOD" -> "good"
      [] f = "INACCURACY" -> "inaccuracy"
      [] f = "MISTAKE" -> "mistake"
      [] f = "BLUNDER" -> "blunder"

MoveFlagOf(v) ==
    CASE v = "best" -> "BEST"
      [] v = "good" -> "GOOD"
      [] v = "inaccuracy" -> "INACCURACY"
      [] v = "mistake" -> "MISTAKE"
      [] v = "blunder" -> "BLUNDER"

\* Eval: exactly one of cp / mate is present.
EvalCp(n) == [kind |-> "cp", value |-> n]
EvalMate(n) == [kind |-> "mate", value |-> n]

to_cp_clamped(ev) ==
    IF ev.kind = "mate"
    THEN (IF ev.value > 0 THEN CLAMP ELSE 0 - CLAMP)
    ELSE Max(0 - CLAMP, Min(CLAMP, ev.value))

EvalToDict(ev) ==
    IF ev.kind = "mate" THEN [mate |-> ev.value] ELSE [cp |-> ev.value]

\* Eval.from_dict that reads a mate distance as a centipawn score.
EvalFromDict_MateAsCp(d) ==
    IF "mate" \in DOMAIN d THEN EvalCp(d.mate) ELSE EvalCp(d.cp)

EvalFromDict(d) ==
    IF "mate" \in DOMAIN d THEN EvalMate(d.mate) ELSE EvalCp(d.cp)

MoveAnalysisToDict(a) ==
    [game_id |-> a.game_id, ply |-> a.ply, move_san |-> a.move_san,
     move_uci |-> a.move_uci, fen_before |-> a.fen_before,
     side_to_move |-> ColorValue(a.side_to_move),
     eval_before |-> EvalToDict(a.eval_before),
     best_move_uci |-> a.best_move_uci,
     eval_best |-> EvalToDict(a.eval_best),
     eval_after |-> EvalToDict(a.eval_after),
     cpl |-> a.cpl, flag |-> MoveFlagValue(a.flag),
     is_player_move |-> a.is_player_move, clock_time |-> a.clock_time]

MoveAnalysisFromDict(d) ==
    [game_id |-> d.game_id, ply |-> d.ply, move_san |-> d.move_san,
     move_uci |-> d.move_uci, fen_before |-> d.fen_before,
     side_to_move |-> ColorOf(d.side_to_move),
     eval_before |-> EvalFromDict(d.eval_before),
     best_move_uci |-> d.best_move_uci,
     eval_best |-> EvalFromDict(d.eval_best),
     eval_after |-> EvalFromDict(d.eval_after),
     cpl |-> d.cpl, flag |-> MoveFlagOf(d.flag),
     is_player_move |-> d.is_player_move, clock_time |-> d.clock_time]

MapSeq(s, Op(_)) == [i \in 1..Len(s) |-> Op(s[i])]

(***************************************************************************)
(* The external collaborators: the move library and the engine oracle.     *)
(* A position (FEN) is identified with the moves that lead to it.          *)
(***************************************************************************)
\* board.parse_san: "Zz" is a move text no position accepts.
ParseSanOk(san) == san # "Zz"

\* move.uci() of the parsed move.
Uci(san) ==
    CASE san = "e4" -> "e2e4"
      [] san = "d4" -> "d2d4"
      [] san = "e5" -> "e7e5"
      [] san = "c5" -> "c7c5"
      [] OTHER -> "0000"

\* What a move is worth to the side that plays it, in centipawns.
MoveGain(san) ==
    CASE san = "e4" -> 20
      [] san = "d4" -> 0 - 2000
      [] san = "e5" -> 0
      [] san = "c5" -> 0 - 60
      [] OTHER -> 0

RECURSIVE OracleCp(_)
OracleCp(fen) ==
    IF fen = <<>> THEN 0
    ELSE LET n == Len(fen)
             sign == IF n % 2 = 1 THEN 1 ELSE 0 - 1
         IN OracleCp(SubSeq(fen, 1, n - 1)) + sign * MoveGain(fen[n])

\* sf.get_evaluation(): the evaluation from White's side, a centipawn score
\* or, here after 1... c5, a mate announced for White.
OracleEval(fen) ==
    IF fen # <<>> /\ fen[Len(fen)] = "c5" THEN EvalMate(2)
    ELSE EvalCp(OracleCp(fen))

\* sf.get_best_move(): the oracle's move in a position.
OracleBestMove(fen) == IF Len(fen) % 2 = 0 THEN "e2e4" ELSE "e7e5"

(***************************************************************************)
(* config.py: the fields of Config the analysis reads (the ones            *)
(* analyze_all_games copies into config_dict for its workers).             *)
(***************************************************************************)
Config(workers, resume, no_game_cache, both_sides) ==
    [workers |-> workers, resume |-> resume,
     no_game_cache |-> no_game_cache, both_sides |-> both_sides,
     engine_time_ms |-> 100, depth |-> "None", threads |-> 1, hash_mb |-> 64,
     inaccuracy_threshold |-> 50, mistake_threshold |-> 100,
     blunder_threshold |-> 200]

\* hashlib.sha256(raw.encode()).hexdigest()[:16]: the digest of a text, taken
\* to differ for different texts.
Sha16(raw) == <<"sha256", raw>>

\* "|".join(parts)
RECURSIVE Join(_)
Join(parts) ==
    IF Len(parts) <= 1 THEN parts
    ELSE <<Head(parts), "|">> \o Join(Tail(parts))

\* engine_settings_hash with the threads setting left out of the parts.
engine_settings_hash_NoThreads(config) ==
    Sha16(Join(<< <<"time_ms=", config.engine_time_ms>>,
                  <<"depth=", config.depth>>,
                  <<"hash_mb=", config.hash_mb>> >>))

\* Config.engine_settings_hash: the digest of "time_ms=..|depth=..|threads=..
\* |hash_mb=..".  A formatted part is the pair of its label and its value;
\* depth is held as its text, "None" or the digits.
engine_settings_hash(config) ==
    Sha16(Join(<< <<"time_ms=", config.engine_time_ms>>,
                  <<"depth=", config.depth>>,
                  <<"threads=", config.threads>>,
                  <<"hash_mb=", config.hash_mb>> >>))

(***************************************************************************)
(* analyze.py: normalize_eval, classify_move.                              *)
(***************************************************************************)
normalize_eval(ev, player_color) ==
    IF player_color = "WHITE" THEN ev
    ELSE IF ev.kind = "mate" THEN EvalMate(0 - ev.value)
    ELSE EvalCp(0 - ev.value)

\* classify_move with "<=" for "<" at the thresholds.
classify_move_Inclusive(cpl, config) ==
    IF cpl <= 0 THEN "BEST"
    ELSE IF cpl <= config.inaccuracy_threshold THEN "GOOD"
    ELSE IF cpl <= config.mistake_threshold THEN "INACCURACY"
    ELSE IF cpl <= config.blunder_threshold THEN "MISTAKE"
    ELSE "BLUNDER"

classify_move(cpl, config) ==
    IF cpl <= 0 THEN "BEST"
    ELSE IF cpl < config.inaccuracy_threshold THEN "GOOD"
    ELSE IF cpl < config.mistake_threshold THEN "INACCURACY"
    ELSE IF cpl < config.blunder_threshold THEN "MISTAKE"
    ELSE "BLUNDER"

(***************************************************************************)
(* cache.py: the position cache (a dict in memory, a JSONL file on disk)   *)
(* and the game cache (one JSON file per key).                             *)
(***************************************************************************)
\* make_cache_key: the digest of f"{fen}|{engine_hash}".
make_cache_key(fen, engine_hash) == Sha16(<<fen, "|", engine_hash>>)

make_game_cache_key(game_id, config) ==
    <<CACHE_VERSION, game_id, engine_settings_hash(config), config.both_sides,
      config.inaccuracy_threshold, config.mistake_threshold,
      config.blunder_threshold>>

\* One line of the JSONL file: the record's dict plus "_cache_key".
CacheLine(cache_key, analysis) ==
    [_cache_key |-> cache_key, entry |-> MoveAnalysisToDict(analysis)]

\* write_cache_entry that appends the line twice.
write_cache_entry_Twice(file, cache_key, analysis) ==
    Append(Append(file, CacheLine(cache_key, analysis)),
           CacheLine(cache_key, analysis))

write_cache_entry(file, cache_key, analysis) ==
    Append(file, CacheLine(cache_key, analysis))

\* The loop over the file's lines; a line whose key is the empty text is
\* passed over ("if key:").
RECURSIVE LoadCacheFrom(_, _, _)
LoadCacheFrom(file, i, cache) ==
    IF i > Len(file) THEN cache
    ELSE IF file[i]._cache_key = <<>> THEN LoadCacheFrom(file, i + 1, cache)
    ELSE LoadCacheFrom(file, i + 1,
            (file[i]._cache_key :> MoveAnalysisFromDict(file[i].entry)) @@ cache)

\* load_cache: a missing file and an empty file both give the empty dict.
load_cache(file) == LoadCacheFrom(file, 1, <<>>)

\* No file at the key's path.
NoGameCacheFile ==
    [form |-> "absent", cache_version |-> "", game_id |-> "", analyses |-> <<>>]

\* The body of load_game_cache's try block, on the file at the key's path:
\* what it returns, or that it raised.
GameCacheTry(data) ==
    IF data.form = "unreadable" THEN [outcome |-> "exception"]
    ELSE IF data.form = "not_object" THEN [outcome |-> "exception"]
    ELSE IF data.cache_version # CACHE_VERSION THEN [outcome |-> "none"]
    ELSE IF data.form = "bad_record" THEN [outcome |-> "exception"]
    ELSE [outcome |-> "value",
          analyses |-> MapSeq(data.analyses, MoveAnalysisFromDict)]

\* load_game_cache without its except clause: the exception leaves the call.
load_game_cache_NoExcept(gcfiles, game_id, config) ==
    LET key == make_game_cache_key(game_id, config)
        miss == [hit |-> FALSE, analyses |-> <<>>, raised |-> FALSE]
    IN IF key \notin DOMAIN gcfiles THEN miss
       ELSE LET r == GameCacheTry(gcfiles[key])
            IN IF r.outcome = "value"
               THEN [hit |-> TRUE, analyses |-> r.analyses, raised |-> FALSE]
               ELSE IF r.outcome = "exception"
               THEN [hit |-> FALSE, analyses |-> <<>>, raised |-> TRUE]
               ELSE miss

\* load_game_cache: [hit, analyses, raised]; hit = FALSE is Python's None.
load_game_cache(gcfiles, game_id, config) ==
    LET key == make_game_cache_key(game_id, config)
        miss == [hit |-> FALSE, analyses |-> <<>>, raised |-> FALSE]
    IN IF key \notin DOMAIN gcfiles THEN miss
       ELSE LET r == GameCacheTry(gcfiles[key])
            IN IF r.outcome = "value"
               THEN [hit |-> TRUE, analyses |-> r.analyses, raised |-> FALSE]
               ELSE IF r.outcome = "exception"
               THEN miss    \* except Exception: a warning, return None
               ELSE miss

save_game_cache(gcfiles, game_id, config, analyses) ==
    (make_game_cache_key(game_id, config) :>
        [form |-> "object", cache_version |-> CACHE_VERSION,
         game_id |-> game_id,
         analyses |-> MapSeq(analyses, MoveAnalysisToDict)]) @@ gcfiles

(***************************************************************************)
(* The input: parsed games.  The FEN after ply i is the position reached   *)
(* by the game's first i moves.                                            *)
(***************************************************************************)
ParsedGame(game_id, player_color, moves_san, clock_times) ==
    [game_id |-> game_id, player_color |-> player_color,
     moves_san |-> moves_san,
     fens |-> [i \in 1..Len(moves_san) |-> SubSeq(moves_san, 1, i)],
     clock_times |-> clock_times]

GameIds == <<"g1", "g2", "g3", "g4">>

\* The games a run may be given: two White games that part at the first
\* move, a Black game that answers 1. e4, a Black game whose reply cannot
\* be parsed, and a game without clock samples for its last ply.
GameShapes ==
    { [player_color |-> "WHITE", moves_san |-> <<"e4", "e5">>, clock_times |-> <<60, 59>>],
      [player_color |-> "WHITE", moves_san |-> <<"d4", "e5">>, clock_times |-> <<30>>],
      [player_color |-> "BLACK", moves_san |-> <<"e4", "c5">>, clock_times |-> <<60, 58>>],
      [player_color |-> "BLACK", moves_san |-> <<"e4", "Zz">>, clock_times |-> <<>>] }

GameLists ==
    { [i \in 1..NumGames |->
          ParsedGame(GameIds[i], f[i].player_color, f[i].moves_san, f[i].clock_times)]
      : f \in [1..NumGames -> GameShapes] }

SideToMove(ply) == IF ply % 2 = 1 THEN "WHITE" ELSE "BLACK"

\* fens_before = [start_fen] + game.fens[:-1]
FensBefore(game) ==
    <<STARTING_FEN>> \o SubSeq(game.fens, 1, Len(game.fens) - 1)

\* game.clock_times[i] if i < len(game.clock_times) else None (i is 0-based)
ClockAt(game, ply) ==
    IF ply <= Len(game.clock_times) THEN game.clock_times[ply] ELSE NoClock

\* The per-ply loop without its skip of the opponent's plies.
EvaluatedPlies_AllPlies(game, config) == 1..Len(game.moves_san)

\* The plies the per-ply loop evaluates (lines 118-130).
EvaluatedPlies(game, config) ==
    { ply \in 1..Len(game.moves_san) :
        config.both_sides \/ SideToMove(ply) = game.player_color }

(***************************************************************************)
(* analyze.py: analyze_game.                                               *)
(* env is what the outside does during this call:                          *)
(*   env.engine_starts  whether create_engine returns (else EngineError)   *)
(*   env.fail           the plies at which an engine call raises           *)
(***************************************************************************)
\* The record built on a position-cache hit (lines 138-159).
HitRecord(game, ply, san, fen_before, cached) ==
    [game_id |-> game.game_id, ply |-> ply,
     move_san |-> IF cached.game_id = game.game_id THEN cached.move_san ELSE san,
     move_uci |-> cached.move_uci,
     fen_before |-> fen_before,
     side_to_move |-> SideToMove(ply),
     eval_before |-> cached.eval_before,
     best_move_uci |-> cached.best_move_uci,
     eval_best |-> cached.eval_best,
     eval_after |-> cached.eval_after,
     cpl |-> cached.cpl, flag |-> cached.flag,
     is_player_move |-> (SideToMove(ply) = game.player_color),
     clock_time |-> ClockAt(game, ply)]

\* The record built on a miss with the loss left as the bare difference.
FreshRecord_NoFloor(game, config, ply, san, fen_before) ==
    LET eval_before_raw == OracleEval(fen_before)
        eval_best == normalize_eval(eval_before_raw, game.player_color)
        fen_after == Append(fen_before, san)
        eval_after == normalize_eval(OracleEval(fen_after), game.player_color)
        cpl == to_cp_clamped(eval_best) - to_cp_clamped(eval_after)
    IN [game_id |-> game.game_id, ply |-> ply,
        move_san |-> san, move_uci |-> Uci(san),
        fen_before |-> fen_before,
        side_to_move |-> SideToMove(ply),
        eval_before |-> normalize_eval(eval_before_raw, game.player_color),
        best_move_uci |-> OracleBestMove(fen_before),
        eval_best |-> eval_best, eval_after |-> eval_after,
        cpl |-> cpl, flag |-> classify_move(cpl, config),
        is_player_move |-> (SideToMove(ply) = game.player_color),
        clock_time |-> ClockAt(game, ply)]

\* The record built on a miss (lines 163-212).
FreshRecord(game, config, ply, san, fen_before) ==
    LET eval_before_raw == OracleEval(fen_before)
        eval_best == normalize_eval(eval_before_raw, game.player_color)
        fen_after == Append(fen_before, san)
        eval_after == normalize_eval(OracleEval(fen_after), game.player_color)
        cpl == Max(0, to_cp_clamped(eval_best) - to_cp_clamped(eval_after))
    IN [game_id |-> game.game_id, ply |-> ply,
        move_san |-> san, move_uci |-> Uci(san),
        fen_before |-> fen_before,
        side_to_move |-> SideToMove(ply),
        eval_before |-> normalize_eval(eval_before_raw, game.player_color),
        best_move_uci |-> OracleBestMove(fen_before),
        eval_best |-> eval_best, eval_after |-> eval_after,
        cpl |-> cpl, flag |-> classify_move(cpl, config),
        is_player_move |-> (SideToMove(ply) = game.player_color),
        clock_time |-> ClockAt(game, ply)]

\* The per-ply iteration with an except clause that gives up the game: a
\* failed ply discards the records collected so far.
PlyStep_DropOnFailure(st, game, config, env, ply) ==
    LET san == game.moves_san[ply]
        fen_before == FensBefore(game)[ply]
        cache_key == make_cache_key(fen_before, engine_settings_hash(config))
    IN IF ply \notin EvaluatedPlies(game, config) THEN st
       ELSE IF cache_key \in DOMAIN st.cache
       THEN [st EXCEPT
               !.analyses = Append(@, HitRecord(game, ply, san, fen_before,
                                                st.cache[cache_key])),
               !.cache_hits = @ + 1,
               !.lookups = @ \cup {cache_key}]
       ELSE IF ~ParseSanOk(san) \/ ply \in env.fail
       THEN [st EXCEPT !.analyses = <<>>,
                       !.cache_misses = @ + 1,
                       !.lookups = @ \cup {cache_key},
                       !.failed = @ \cup {ply}]
       ELSE LET analysis == FreshRecord(game, config, ply, san, fen_before)
            IN [st EXCEPT
                  !.analyses = Append(@, analysis),
                  !.cache_misses = @ + 1,
                  !.lookups = @ \cup {cache_key},
                  !.evaluated = @ \cup {cache_key},
                  !.file = write_cache_entry(@, cache_key, analysis),
                  !.cache = (cache_key :> analysis) @@ @]

\* One iteration of the per-ply loop (lines 116-222) on the loop's state
\* st = [analyses, cache_hits, cache_misses, cache, file, ...].
PlyStep(st, game, config, env, ply) ==
    LET san == game.moves_san[ply]
        fen_before == FensBefore(game)[ply]
        cache_key == make_cache_key(fen_before, engine_settings_hash(config))
    IN IF ply \notin EvaluatedPlies(game, config) THEN st
       ELSE IF cache_key \in DOMAIN st.cache
       THEN [st EXCEPT
               !.analyses = Append(@, HitRecord(game, ply, san, fen_before,
                                                st.cache[cache_key])),
               !.cache_hits = @ + 1,
               !.lookups = @ \cup {cache_key}]
       ELSE IF ~ParseSanOk(san) \/ ply \in env.fail
       THEN [st EXCEPT !.cache_misses = @ + 1,
                       !.lookups = @ \cup {cache_key},
                       !.failed = @ \cup {ply}]
       ELSE LET analysis == FreshRecord(game, config, ply, san, fen_before)
            IN [st EXCEPT
                  !.analyses = Append(@, analysis),
                  !.cache_misses = @ + 1,
                  !.lookups = @ \cup {cache_key},
                  !.evaluated = @ \cup {cache_key},
                  !.file = write_cache_entry(@, cache_key, analysis),
                  !.cache = (cache_key :> analysis) @@ @]

\* Iterations ply..last of the loop.
RECURSIVE PlyLoop(_, _, _, _, _, _)
PlyLoop(st, game, config, env, ply, last) ==
    IF ply > last THEN st
    ELSE PlyLoop(PlyStep(st, game, config, env, ply), game, config, env,
                 ply + 1, last)

\* len(zip(game.moves_san, fens_before))
TotalPlies(game) == Min(Len(game.moves_san), Len(FensBefore(game)))

LoopStart(cache, file) ==
    [analyses |-> <<>>, cache_hits |-> 0, cache_misses |-> 0,
     cache |-> cache, file |-> file,
     lookups |-> {}, evaluated |-> {}, failed |-> {}]

\* analyze_game with the engine built before the game cache is looked at.
analyze_game_EngineFirst(game, config, cache, file, gcfiles, env) ==
    LET gc == IF config.no_game_cache
              THEN [hit |-> FALSE, analyses |-> <<>>, raised |-> FALSE]
              ELSE load_game_cache(gcfiles, game.game_id, config)
        key == make_game_cache_key(game.game_id, config)
        base == [raised |-> FALSE, analyses |-> <<>>, hits |-> 0, misses |-> 0,
                 cache |-> cache, file |-> file, file0 |-> file,
                 gcfiles |-> gcfiles,
                 gc_data |-> IF ~config.no_game_cache /\ key \in DOMAIN gcfiles
                             THEN gcfiles[key] ELSE NoGameCacheFile,
                 gc_raised |-> gc.raised,
                 gc_hit |-> FALSE, engine_created |-> FALSE,
                 lookups |-> {}, evaluated |-> {}, failed |-> {}]
    IN IF ~env.engine_starts THEN [base EXCEPT !.raised = TRUE]
       ELSE IF gc.raised THEN [base EXCEPT !.raised = TRUE, !.engine_created = TRUE]
       ELSE IF gc.hit
       THEN [base EXCEPT !.analyses = gc.analyses, !.gc_hit = TRUE,
                         !.engine_created = TRUE]
       ELSE LET st == PlyLoop(LoopStart(cache, file), game, config, env, 1,
                              TotalPlies(game))
            IN [base EXCEPT
                  !.analyses = st.analyses,
                  !.hits = st.cache_hits, !.misses = st.cache_misses,
                  !.cache = st.cache, !.file = st.file,
                  !.gcfiles = IF ~config.no_game_cache /\ st.analyses # <<>>
                              THEN save_game_cache(gcfiles, game.game_id, config,
                                                   st.analyses)
                              ELSE gcfiles,
                  !.engine_created = TRUE,
                  !.lookups = st.lookups, !.evaluated = st.evaluated,
                  !.failed = st.failed]

\* What analyze_game leaves behind: its return value (analyses, hits,
\* misses) or raised = TRUE, the position cache and its file, the game-cache
\* files, and a log of what the call did.
analyze_game(game, config, cache, file, gcfiles, env) ==
    LET gc == IF config.no_game_cache
              THEN [hit |-> FALSE, analyses |-> <<>>, raised |-> FALSE]
              ELSE load_game_cache(gcfiles, game.game_id, config)
        key == make_game_cache_key(game.game_id, config)
        base == [raised |-> FALSE, analyses |-> <<>>, hits |-> 0, misses |-> 0,
                 cache |-> cache, file |-> file, file0 |-> file,
                 gcfiles |-> gcfiles,
                 gc_data |-> IF ~config.no_game_cache /\ key \in DOMAIN gcfiles
                             THEN gcfiles[key] ELSE NoGameCacheFile,
                 gc_raised |-> gc.raised,
                 gc_hit |-> FALSE, engine_created |-> FALSE,
                 lookups |-> {}, evaluated |-> {}, failed |-> {}]
    IN IF gc.raised THEN [base EXCEPT !.raised = TRUE]
       ELSE IF gc.hit
       THEN [base EXCEPT !.analyses = gc.analyses, !.gc_hit = TRUE]
       ELSE IF ~env.engine_starts
       THEN [base EXCEPT !.raised = TRUE]
       ELSE LET st == PlyLoop(LoopStart(cache, file), game, config, env, 1,
                              TotalPlies(game))
            IN [base EXCEPT
                  !.analyses = st.analyses,
                  !.hits = st.cache_hits, !.misses = st.cache_misses,
                  !.cache = st.cache, !.file = st.file,
                  !.gcfiles = IF ~config.no_game_cache /\ st.analyses # <<>>
                              THEN save_game_cache(gcfiles, game.game_id, config,
                                                   st.analyses)
                              ELSE gcfiles,
                  !.engine_created = TRUE,
                  !.lookups = st.lookups, !.evaluated = st.evaluated,
                  !.failed = st.failed]

(***************************************************************************)
(* The state.                                                              *)
(***************************************************************************)
VARIABLES
    games,         \* the parsed games given to every run
    config,        \* the Config of the current run
    run,           \* how many runs have been started
    run_dir,       \* the run directory of the current run (its timestamp)
    status,        \* "start" | "single" | "pool" | "returned" | "raised"
    posFiles,      \* run directory -> analysis/cache.jsonl, a sequence of lines
    gcfiles,       \* game-cache key -> the JSON file at that key
    cache,         \* single-process mode: the position cache dict
    idx,           \* single-process mode: the index of the next game
    all_analyses,  \* the merged list of MoveAnalysis
    total_hits,
    total_misses,
    completed,     \* pool mode: results merged so far
    counter,       \* pool mode: the shared worker-id counter
    workers,       \* pool mode: worker -> [state, worker_id, task, cache, file]
    next_task,     \* pool mode: the next work item of the common queue
    outq,          \* pool mode: results on their way to the parent
    calls,         \* game index -> what each analyze_game call of this run did
    prevKeys,      \* cache keys written to a position-cache file by earlier runs
    pure           \* the state of the pure-function specifications

vars == <<games, config, run, run_dir, status, posFiles, gcfiles, cache, idx,
          all_analyses, total_hits, total_misses, completed, counter, workers,
          next_task, outq, calls, prevKeys, pure>>

Ended == status \in {"start", "returned", "raised"}

Workers == 1..NumWorkers

\* What the outside may do during one analyze_game call.
Envs(game, cfg) ==
    [engine_starts : BOOLEAN, fail : SUBSET EvaluatedPlies(game, cfg)]

\* The log entry of one analyze_game call.
CallLog(r, who, cfg) ==
    [who |-> who, raised |-> r.raised, analyses |-> r.analyses,
     hits |-> r.hits, misses |-> r.misses,
     gc_data |-> r.gc_data, gc_raised |-> r.gc_raised, gc_hit |-> r.gc_hit,
     engine_created |-> r.engine_created, lookups |-> r.lookups,
     evaluated |-> r.evaluated, failed |-> r.failed,
     written |-> Len(r.file) - Len(r.file0)]

\* The place in posFiles of tmp_dir/cache_<worker_id>.jsonl: the files of
\* the run directories come first.
WorkerCachePath(worker_id) == MaxRuns + 1 + worker_id

\* A worker process before its initializer ran: the module's globals
\* _worker_id = 0, _worker_cache = {} and _worker_cache_path = None (0).
FreshWorker ==
    [state |-> "uninit", worker_id |-> 0, task |-> 0, cache |-> <<>>,
     cache_path |-> 0]

\* The state before the first run: nothing on disk.
Init ==
    /\ games \in GameLists
    /\ config = Config(1, FALSE, FALSE, FALSE)
    /\ run = 0
    /\ run_dir = 0
    /\ status = "start"
    /\ posFiles = [d \in 1..MaxRuns |-> <<>>]
    /\ gcfiles = <<>>
    /\ cache = <<>>
    /\ idx = 1
    /\ all_analyses = <<>>
    /\ total_hits = 0
    /\ total_misses = 0
    /\ completed = 0
    /\ counter = 0
    /\ workers = [w \in Workers |-> FreshWorker]
    /\ next_task = 1
    /\ outq = <<>>
    /\ calls = [g \in 1..NumGames |-> <<>>]
    /\ prevKeys = {}
    /\ pure = [op |-> "none"]

\* The keys of a position-cache file.
FileKeys(file) == { file[i]._cache_key : i \in 1..Len(file) }

(***************************************************************************)
(* pipeline.py: run_pipeline up to the call of analyze_all_games, and      *)
(* analyze.py: analyze_all_games in single-process mode up to its first    *)
(* game.  _make_run_dir names the run directory by the time to the second: *)
(* a run started within the second of the previous one gets the same       *)
(* directory, any later run a new one.                                     *)
(***************************************************************************)
StartRun(resume, no_game_cache, both_sides, dir) ==
    /\ Ended
    /\ run < MaxRuns
    /\ dir \in {run_dir, run_dir + 1} \ {0}
    /\ run' = run + 1
    /\ run_dir' = dir
    /\ config' = Config(1, resume, no_game_cache, both_sides)
    /\ prevKeys' = prevKeys \cup UNION { FileKeys(posFiles[d]) : d \in 1..MaxRuns }
    /\ status' = "single"
    /\ cache' = IF resume THEN load_cache(posFiles[dir]) ELSE <<>>
    /\ idx' = 1
    /\ all_analyses' = <<>>
    /\ total_hits' = 0
    /\ total_misses' = 0
    /\ calls' = [g \in 1..NumGames |-> <<>>]
    /\ UNCHANGED <<games, posFiles, gcfiles, completed, counter, workers,
                   next_task, outq, pure>>

(***************************************************************************)
(* analyze_all_games, single-process mode: one iteration of the loop over  *)
(* the games (lines 292-297) and, after the last game, the return.  An     *)
(* exception of analyze_game leaves the loop and the function.             *)
(***************************************************************************)
AnalyzeNextGame(env) ==
    /\ status = "single"
    /\ idx <= NumGames
    /\ env \in Envs(games[idx], config)
    /\ LET r == analyze_game(games[idx], config, cache, posFiles[run_dir],
                             gcfiles, env)
       IN /\ calls' = [calls EXCEPT ![idx] = Append(@, CallLog(r, 0, config))]
          /\ IF r.raised
             THEN /\ status' = "raised"
                  /\ UNCHANGED <<cache, posFiles, gcfiles, idx, all_analyses,
                                 total_hits, total_misses>>
             ELSE /\ all_analyses' = all_analyses \o r.analyses
                  /\ total_hits' = total_hits + r.hits
                  /\ total_misses' = total_misses + r.misses
                  /\ cache' = r.cache
                  /\ posFiles' = [posFiles EXCEPT ![run_dir] = r.file]
                  /\ gcfiles' = r.gcfiles
                  /\ idx' = idx + 1
                  /\ status' = IF idx = NumGames THEN "returned" ELSE "single"
    /\ UNCHANGED <<games, config, run, run_dir, completed, counter, workers,
                   next_task, outq, prevKeys, pure>>

DamageForms == {"old_version", "unreadable", "not_object", "bad_record"}

\* Between two runs a game-cache file is damaged, or turns out to have been
\* written by an older version.
DamageGameCache(key, form) ==
    /\ Ended
    /\ run < MaxRuns
    /\ key \in DOMAIN gcfiles
    /\ \A k \in DOMAIN gcfiles :
          gcfiles[k].form = "object" /\ gcfiles[k].cache_version = CACHE_VERSION
    /\ gcfiles' = [gcfiles EXCEPT ![key] =
                      IF form = "old_version"
                      THEN [@ EXCEPT !.cache_version = "0"]
                      ELSE [@ EXCEPT !.form = form]]
    /\ UNCHANGED <<games, config, run, run_dir, status, posFiles, cache, idx,
                   all_analyses, total_hits, total_misses, completed, counter,
                   workers, next_task, outq, calls, prevKeys, pure>>

\* The longest game of the input, in plies.
LongestGame == 2

AllEnvs == [engine_starts : BOOLEAN, fail : SUBSET (1..LongestGame)]

Next ==
    \/ \E resume \in BOOLEAN, ngc \in BOOLEAN, both \in BOOLEAN, dir \in 1..MaxRuns :
          StartRun(resume, ngc, both, dir)
    \/ \E env \in AllEnvs : AnalyzeNextGame(env)
    \/ \E key \in DOMAIN gcfiles, form \in DamageForms : DamageGameCache(key, form)

Spec == Init /\ [][Next]_vars

(***************************************************************************)
(* analyze_all_games, worker-pool mode (lines 305-365): one run.           *)
(***************************************************************************)
\* The game cache as clean earlier analyses of the games in S left it.
RECURSIVE EarlierGameCache(_, _, _)
EarlierGameCache(gs, cfg, S) ==
    IF S = {} THEN <<>>
    ELSE LET g == CHOOSE x \in S : TRUE
             r == analyze_game(gs[g], cfg, <<>>, <<>>, <<>>,
                               [engine_starts |-> TRUE, fail |-> {}])
         IN r.gcfiles @@ EarlierGameCache(gs, cfg, S \ {g})

\* The state when the pool has been created: config.workers processes
\* about to run their initializer, every game a work item of the queue.
InitPool ==
    /\ games \in GameLists
    /\ \E w \in 2..NumWorkers, ngc \in BOOLEAN, both \in BOOLEAN :
          config = Config(w, FALSE, ngc, both)
    /\ run = 1
    /\ run_dir = 1
    /\ status = "pool"
    /\ posFiles = [d \in 1..(MaxRuns + NumWorkers) |-> <<>>]
    /\ \E S \in SUBSET (1..NumGames) :
          gcfiles = EarlierGameCache(games, Config(1, FALSE, FALSE, config.both_sides), S)
    /\ cache = <<>>
    /\ idx = 1
    /\ all_analyses = <<>>
    /\ total_hits = 0
    /\ total_misses = 0
    /\ completed = 0
    /\ counter = 0
    /\ workers = [w \in Workers |-> FreshWorker]
    /\ next_task = 1
    /\ outq = <<>>
    /\ calls = [g \in 1..NumGames |-> <<>>]
    /\ prevKeys = {}
    /\ pure = [op |-> "none"]

\* _pool_initializer that reads the counter and leaves it as it is.
PoolInitializer_NoIncrement(w) ==
    /\ status = "pool"
    /\ w <= config.workers
    /\ workers[w].state = "uninit"
    /\ workers' = [workers EXCEPT ![w] =
                      [state |-> "idle", worker_id |-> counter, task |-> 0,
                       cache |-> <<>>, cache_path |-> WorkerCachePath(counter)]]
    /\ UNCHANGED <<games, config, run, run_dir, status, posFiles, gcfiles, cache,
                   idx, all_analyses, total_hits, total_misses, completed,
                   counter, next_task, outq, calls, prevKeys, pure>>

\* _pool_initializer: under the counter's lock, take the next worker id;
\* the worker's cache file is named after it, its cache dict starts empty.
PoolInitializer(w) ==
    /\ status = "pool"
    /\ w <= config.workers
    /\ workers[w].state = "uninit"
    /\ workers' = [workers EXCEPT ![w] =
                      [state |-> "idle", worker_id |-> counter, task |-> 0,
                       cache |-> <<>>, cache_path |-> WorkerCachePath(counter)]]
    /\ counter' = counter + 1
    /\ UNCHANGED <<games, config, run, run_dir, status, posFiles, gcfiles, cache,
                   idx, all_analyses, total_hits, total_misses, completed,
                   next_task, outq, calls, prevKeys, pure>>

\* A queue that hands out its head without removing it.
WorkerTake_NoAdvance(w) ==
    /\ status = "pool"
    /\ workers[w].state = "idle"
    /\ next_task <= NumGames
    /\ workers' = [workers EXCEPT ![w].state = "busy", ![w].task = next_task]
    /\ UNCHANGED <<games, config, run, run_dir, status, posFiles, gcfiles, cache,
                   idx, all_analyses, total_hits, total_misses, completed,
                   counter, next_task, outq, calls, prevKeys, pure>>

\* A worker pulls the next work item (one game) from the common queue.
WorkerTake(w) ==
    /\ status = "pool"
    /\ workers[w].state = "idle"
    /\ next_task <= NumGames
    /\ workers' = [workers EXCEPT ![w].state = "busy", ![w].task = next_task]
    /\ next_task' = next_task + 1
    /\ UNCHANGED <<games, config, run, run_dir, status, posFiles, gcfiles, cache,
                   idx, all_analyses, total_hits, total_misses, completed,
                   counter, outq, calls, prevKeys, pure>>

\* config_dict (lines 320-330): what a worker's Config is built from.
WorkerConfig(cfg) == Config(1, FALSE, cfg.no_game_cache, cfg.both_sides)

\* What a worker sends back: the return value of _worker_analyze_one, or
\* the exception it raised.
WorkerResult(task, r) ==
    IF r.raised
    THEN [task |-> task, raised |-> TRUE, analyses_dicts |-> <<>>,
          hits |-> 0, misses |-> 0]
    ELSE [task |-> task, raised |-> FALSE,
          analyses_dicts |-> MapSeq(r.analyses, MoveAnalysisToDict),
          hits |-> r.hits, misses |-> r.misses]

\* _worker_analyze_one on the worker's cache dict and the file at its
\* cache path.
WorkerAnalyzeOne(w, env) ==
    /\ status = "pool"
    /\ workers[w].state = "busy"
    /\ env \in Envs(games[workers[w].task], config)
    /\ LET task == workers[w].task
           cfg == WorkerConfig(config)
           r == analyze_game(games[task], cfg, workers[w].cache,
                             posFiles[workers[w].cache_path], gcfiles, env)
       IN /\ calls' = [calls EXCEPT ![task] = Append(@, CallLog(r, w, cfg))]
          /\ workers' = [workers EXCEPT ![w].state = "idle", ![w].task = 0,
                                        ![w].cache = r.cache]
          /\ posFiles' = [posFiles EXCEPT ![workers[w].cache_path] = r.file]
          /\ gcfiles' = r.gcfiles
          /\ outq' = Append(outq, WorkerResult(task, r))
    /\ UNCHANGED <<games, config, run, run_dir, status, cache, idx,
                   all_analyses, total_hits, total_misses, completed, counter,
                   next_task, prevKeys, pure>>

\* The parent's loop over pool.imap_unordered (lines 351-359): the next
\* result that arrived is merged, or its exception is raised in the parent;
\* after the last result the function returns.
ParentMerge ==
    /\ status = "pool"
    /\ outq # <<>>
    /\ LET res == Head(outq)
       IN IF res.raised
          THEN /\ status' = "raised"
               /\ UNCHANGED <<all_analyses, total_hits, total_misses, completed>>
          ELSE /\ all_analyses' =
                     all_analyses \o MapSeq(res.analyses_dicts, MoveAnalysisFromDict)
               /\ total_hits' = total_hits + res.hits
               /\ total_misses' = total_misses + res.misses
               /\ completed' = completed + 1
               /\ status' = IF completed + 1 = NumGames THEN "returned" ELSE "pool"
    /\ outq' = Tail(outq)
    /\ UNCHANGED <<games, config, run, run_dir, posFiles, gcfiles, cache, idx,
                   counter, workers, next_task, calls, prevKeys, pure>>

NextPool ==
    \/ \E w \in Workers : PoolInitializer(w)
    \/ \E w \in Workers : WorkerTake(w)
    \/ \E w \in Workers : \E env \in AllEnvs : WorkerAnalyzeOne(w, env)
    \/ ParentMerge

SpecPool == InitPool /\ [][NextPool]_vars

(***************************************************************************)
(* The pure functions run on their own: the pipeline's variables rest.     *)
(***************************************************************************)
pipeline_vars ==
    <<games, config, run, run_dir, status, posFiles, gcfiles, cache, idx,
      all_analyses, total_hits, total_misses, completed, counter, workers,
      next_task, outq, calls, prevKeys>>

InitIdle ==
    /\ games = <<>>
    /\ config = Config(1, FALSE, FALSE, FALSE)
    /\ run = 0
    /\ run_dir = 0
    /\ status = "start"
    /\ posFiles = <<>>
    /\ gcfiles = <<>>
    /\ cache = <<>>
    /\ idx = 1
    /\ all_analyses = <<>>
    /\ total_hits = 0
    /\ total_misses = 0
    /\ completed = 0
    /\ counter = 0
    /\ workers = <<>>
    /\ next_task = 1
    /\ outq = <<>>
    /\ calls = <<>>
    /\ prevKeys = {}

(***************************************************************************)
(* phase.py: detect_phase.  Of a position it reads, per colour, how many   *)
(* knights, bishops, rooks and queens there are and how many of the        *)
(* colour's four minor-piece home squares hold one of its own minors.      *)
(***************************************************************************)
PIECE_VALUES == [KNIGHT |-> 3, BISHOP |-> 3, ROOK |-> 5, QUEEN |-> 9]

ENDGAME_MATERIAL_THRESHOLD == 13

Colors == {"WHITE", "BLACK"}

\* len(board.pieces(piece_type, color))
PieceCount(board, piece_type, color) == board.pieces[color][piece_type]

_non_pawn_material(board) ==
      PieceCount(board, "KNIGHT", "WHITE") * PIECE_VALUES.KNIGHT
    + PieceCount(board, "KNIGHT", "BLACK") * PIECE_VALUES.KNIGHT
    + PieceCount(board, "BISHOP", "WHITE") * PIECE_VALUES.BISHOP
    + PieceCount(board, "BISHOP", "BLACK") * PIECE_VALUES.BISHOP
    + PieceCount(board, "ROOK", "WHITE") * PIECE_VALUES.ROOK
    + PieceCount(board, "ROOK", "BLACK") * PIECE_VALUES.ROOK
    + PieceCount(board, "QUEEN", "WHITE") * PIECE_VALUES.QUEEN
    + PieceCount(board, "QUEEN", "BLACK") * PIECE_VALUES.QUEEN

\* _is_developed with "or" for "and": one developed side is enough.
_is_developed_EitherSide(board) ==
    LET white_developed == (4 - board.minors_home["WHITE"]) >= 2
        black_developed == (4 - board.minors_home["BLACK"]) >= 2
    IN white_developed \/ black_developed

_is_developed(board) ==
    LET white_developed == (4 - board.minors_home["WHITE"]) >= 2
        black_developed == (4 - board.minors_home["BLACK"]) >= 2
    IN white_developed /\ black_developed

detect_phase(fen, ply) ==
    LET board == fen
        material == _non_pawn_material(board)
    IN IF material <= ENDGAME_MATERIAL_THRESHOLD THEN "ENDGAME"
       ELSE IF ply <= 20 /\ ~_is_developed(board) THEN "OPENING"
       ELSE "MIDDLEGAME"

\* One colour's pieces: up to two knights, bishops and rooks and a queen,
\* and no more minors at home than the colour has.
SidePieces ==
    { sp \in [KNIGHT : 0..2, BISHOP : {0, 2}, ROOK : 0..2, QUEEN : 0..1,
              home : 0..4] : sp.home <= sp.KNIGHT + sp.BISHOP }

Board(w, b) ==
    [pieces |-> [c \in Colors |->
                    LET sp == IF c = "WHITE" THEN w ELSE b
                    IN [KNIGHT |-> sp.KNIGHT, BISHOP |-> sp.BISHOP,
                        ROOK |-> sp.ROOK, QUEEN |-> sp.QUEEN]],
     minors_home |-> [c \in Colors |-> IF c = "WHITE" THEN w.home ELSE b.home]]

DetectPlies == {1, 20, 21, 40}

InitDetect ==
    /\ InitIdle
    /\ \E w \in SidePieces, b \in SidePieces, ply \in DetectPlies :
          pure = [op |-> "detect_phase", fen |-> Board(w, b), ply |-> ply,
                  phase |-> "unset"]

DetectPhase ==
    /\ pure.op = "detect_phase"
    /\ pure.phase = "unset"
    /\ pure' = [pure EXCEPT !.phase = detect_phase(pure.fen, pure.ply)]
    /\ UNCHANGED pipeline_vars

NextDetect == DetectPhase

SpecDetect == InitDetect /\ [][NextDetect]_vars

\* The minor pieces of a colour that are not on their home squares, of the
\* four the colour starts with.
MinorsLeftHome(board, color) == 4 - board.minors_home[color]

\* C9 as stated: Endgame when the material is at most 13; otherwise Opening
\* when the ply is at most 20 and on each side fewer than 2 minor pieces
\* have left their home squares; otherwise Middlegame.
C9_OpeningWhenNeitherSideDeveloped ==
    (pure.op = "detect_phase" /\ pure.phase # "unset") =>
        LET material == _non_pawn_material(pure.fen) IN
        pure.phase =
            IF material <= 13 THEN "ENDGAME"
            ELSE IF /\ pure.ply <= 20
                    /\ \A c \in Colors : MinorsLeftHome(pure.fen, c) < 2
            THEN "OPENING"
            ELSE "MIDDLEGAME"

\* C9 amended: Endgame when the material is at most 13; otherwise Opening
\* when the ply is at most 20 and at least one side has fewer than 2 minor
\* pieces off their home squares; otherwise Middlegame.
C9_OpeningUnlessBothSidesDeveloped ==
    (pure.op = "detect_phase" /\ pure.phase # "unset") =>
        LET material == _non_pawn_material(pure.fen) IN
        pure.phase =
            IF material <= 13 THEN "ENDGAME"
            ELSE IF /\ pure.ply <= 20
                    /\ \E c \in Colors : MinorsLeftHome(pure.fen, c) < 2
            THEN "OPENING"
            ELSE "MIDDLEGAME"

\* A position with one side developed and the other not, early in the game.
C9_Witness ==
    /\ pure.op = "detect_phase"
    /\ pure.phase = "OPENING"
    /\ pure.ply <= 20
    /\ MinorsLeftHome(pure.fen, "WHITE") >= 2
    /\ MinorsLeftHome(pure.fen, "BLACK") < 2

(***************************************************************************)
(* phase.py: label_phases.  A record here is the part of a MoveAnalysis    *)
(* that label_phases touches: game_id, ply, fen_before, phase.             *)
(***************************************************************************)
MaxRecords == 3
MaxPly == 3

phase_order == [OPENING |-> 0, MIDDLEGAME |-> 1, ENDGAME |-> 2]

\* The indices, in list order, of the records of one game (by_game).
RECURSIVE GameIndices(_, _, _)
GameIndices(analyses, game_id, i) ==
    IF i > Len(analyses) THEN <<>>
    ELSE (IF analyses[i].game_id = game_id THEN <<i>> ELSE <<>>)
         \o GameIndices(analyses, game_id, i + 1)

\* The place of index i in a list already sorted by ply: behind every
\* index whose ply is not greater, as a stable sort leaves it.
RECURSIVE InsertByPly(_, _, _)
InsertByPly(sorted, i, analyses) ==
    IF sorted = <<>> THEN <<i>>
    ELSE IF analyses[Head(sorted)].ply <= analyses[i].ply
    THEN <<Head(sorted)>> \o InsertByPly(Tail(sorted), i, analyses)
    ELSE <<i>> \o sorted

\* The list left as it is.
SortByPly_Unsorted(indices, analyses) == indices

\* game_analyses.sort(key=lambda a: a.ply)
RECURSIVE SortByPly(_, _)
SortByPly(indices, analyses) ==
    IF indices = <<>> THEN <<>>
    ELSE LET n == Len(indices)
         IN InsertByPly(SortByPly(SubSeq(indices, 1, n - 1), analyses),
                        indices[n], analyses)

\* The loop with the clamp left out: each record gets its own classification.
RECURSIVE LabelGame_NoClamp(_, _, _)
LabelGame_NoClamp(analyses, order, current_phase) ==
    IF order = <<>> THEN analyses
    ELSE LET a == analyses[Head(order)]
             detected == detect_phase(a.fen_before, a.ply)
         IN LabelGame_NoClamp([analyses EXCEPT ![Head(order)].phase = detected],
                              Tail(order), detected)

\* The loop over one game's sorted records (lines 89-94).
RECURSIVE LabelGame(_, _, _)
LabelGame(analyses, order, current_phase) ==
    IF order = <<>> THEN analyses
    ELSE LET a == analyses[Head(order)]
             detected == detect_phase(a.fen_before, a.ply)
             next_phase == IF phase_order[detected] >= phase_order[current_phase]
                           THEN detected ELSE current_phase
         IN LabelGame([analyses EXCEPT ![Head(order)].phase = next_phase],
                      Tail(order), next_phase)

\* The loop over by_game.items().
RECURSIVE LabelGames(_, _)
LabelGames(analyses, game_ids) ==
    IF game_ids = {} THEN analyses
    ELSE LET g == CHOOSE x \in game_ids : TRUE
             order == SortByPly(GameIndices(analyses, g, 1), analyses)
         IN LabelGames(LabelGame(analyses, order, "OPENING"), game_ids \ {g})

label_phases(analyses) ==
    LabelGames(analyses, { analyses[i].game_id : i \in 1..Len(analyses) })

\* Three positions: nothing developed, both sides developed, rook and rook.
LabelBoards ==
    LET full(h) == [KNIGHT |-> 2, BISHOP |-> 2, ROOK |-> 2, QUEEN |-> 1, home |-> h]
        rook == [KNIGHT |-> 0, BISHOP |-> 0, ROOK |-> 1, QUEEN |-> 0, home |-> 0]
    IN { Board(full(4), full(4)), Board(full(2), full(2)), Board(rook, rook) }

LabelRecords ==
    [game_id : {"g1", "g2"}, ply : 1..MaxPly, fen_before : LabelBoards,
     phase : {"MIDDLEGAME"}]

\* analyze_game takes fen_before from the game's own moves, so two records
\* of one game at one ply hold the same position.
OnePositionPerPly(analyses) ==
    \A i, j \in 1..Len(analyses) :
        (analyses[i].game_id = analyses[j].game_id /\ analyses[i].ply = analyses[j].ply)
            => analyses[i].fen_before = analyses[j].fen_before

InitPhase ==
    /\ InitIdle
    /\ \E n \in 0..MaxRecords : \E analyses \in [1..n -> LabelRecords] :
          /\ OnePositionPerPly(analyses)
          /\ pure = [op |-> "label_phases", analyses |-> analyses,
                     labelled |-> <<>>, done |-> FALSE]

LabelPhases ==
    /\ pure.op = "label_phases"
    /\ ~pure.done
    /\ pure' = [pure EXCEPT !.labelled = label_phases(pure.analyses),
                            !.done = TRUE]
    /\ UNCHANGED pipeline_vars

NextPhase == LabelPhases

SpecPhase == InitPhase /\ [][NextPhase]_vars

\* C8: after label_phases, of two records of one game the one with the
\* greater ply never has the earlier phase, whatever the order of the list
\* and whatever the positions' own classifications.
C8_PhasesNonDecreasing ==
    (pure.op = "label_phases" /\ pure.done) =>
        /\ Len(pure.labelled) = Len(pure.analyses)
        /\ \A i, j \in 1..Len(pure.labelled) :
              LET a == pure.labelled[i]
                  b == pure.labelled[j]
              IN (a.game_id = b.game_id /\ a.ply < b.ply)
                    => phase_order[a.phase] <= phase_order[b.phase]

\* A list out of ply order in which a later ply's own classification is
\* earlier than the phase an earlier ply reached.
C8_Witness ==
    /\ pure.op = "label_phases" /\ pure.done
    /\ \E i, j \in 1..Len(pure.analyses) :
          LET a == pure.analyses[i]
              b == pure.analyses[j]
          IN /\ i < j /\ a.game_id = b.game_id /\ a.ply > b.ply
             /\ phase_order[detect_phase(a.fen_before, a.ply)]
                   < phase_order[detect_phase(b.fen_before, b.ply)]
             /\ pure.labelled[i].phase = pure.labelled[j].phase

\* The raw classifications of a record and of the records of its game with
\* a lower ply.
RawPhasesUpTo(analyses, i) ==
    { detect_phase(analyses[j].fen_before, analyses[j].ply) :
        j \in { k \in 1..Len(analyses) :
                  \/ k = i
                  \/ /\ analyses[k].game_id = analyses[i].game_id
                     /\ analyses[k].ply < analyses[i].ply } }

\* C29: the phase label_phases gives a record is the highest raw
\* detect_phase classification among the record and the records of the same
\* game with a lower ply; once a ply of a game is Endgame every later ply
\* of that game is Endgame.
C29_PhaseIsRunningMaximum ==
    (pure.op = "label_phases" /\ pure.done) =>
        /\ \A i \in 1..Len(pure.labelled) :
              LET raw == RawPhasesUpTo(pure.analyses, i)
              IN /\ pure.labelled[i].phase \in raw
                 /\ \A p \in raw :
                       phase_order[p] <= phase_order[pure.labelled[i].phase]
        /\ \A i, j \in 1..Len(pure.labelled) :
              (/\ pure.labelled[i].game_id = pure.labelled[j].game_id
               /\ pure.labelled[i].ply < pure.labelled[j].ply
               /\ pure.labelled[i].phase = "ENDGAME")
                  => pure.labelled[j].phase = "ENDGAME"

\* A later ply whose own classification is not Endgame is labelled Endgame
\* because an earlier ply of its game was.
C29_Witness ==
    /\ pure.op = "label_phases" /\ pure.done
    /\ \E i, j \in 1..Len(pure.analyses) :
          LET a == pure.analyses[i]
              b == pure.analyses[j]
          IN /\ a.game_id = b.game_id /\ a.ply < b.ply
             /\ detect_phase(a.fen_before, a.ply) = "ENDGAME"
             /\ detect_phase(b.fen_before, b.ply) # "ENDGAME"
             /\ pure.labelled[j].phase = "ENDGAME"

(***************************************************************************)
(* analyze.py: classify_move on its own, for any thresholds.               *)
(***************************************************************************)
MaxThreshold == 3

ThresholdValues == (0 - 1)..MaxThreshold

CplValues == (0 - 1)..(MaxThreshold + 1)

InitClassify ==
    /\ InitIdle
    /\ \E cpl \in CplValues, i \in ThresholdValues, m \in ThresholdValues,
          b \in ThresholdValues :
          pure = [op |-> "classify_move", cpl |-> cpl,
                  config |-> [Config(1, FALSE, FALSE, FALSE) EXCEPT
                                 !.inaccuracy_threshold = i,
                                 !.mistake_threshold = m,
                                 !.blunder_threshold = b],
                  flag |-> "unset"]

ClassifyMove ==
    /\ pure.op = "classify_move"
    /\ pure.flag = "unset"
    /\ pure' = [pure EXCEPT !.flag = classify_move(pure.cpl, pure.config)]
    /\ UNCHANGED pipeline_vars

NextClassify == ClassifyMove

SpecClassify == InitClassify /\ [][NextClassify]_vars

StrictlyIncreasing(cfg) ==
    /\ cfg.inaccuracy_threshold < cfg.mistake_threshold
    /\ cfg.mistake_threshold < cfg.blunder_threshold

\* C10: with strictly increasing thresholds, the flag of a centipawn loss
\* is Best up to 0, Good above 0 and below the inaccuracy threshold,
\* Inaccuracy from there to below the mistake threshold, Mistake from there
\* to below the blunder threshold, Blunder from the blunder threshold on.
C10_ThresholdCascade ==
    (pure.op = "classify_move" /\ pure.flag # "unset"
        /\ StrictlyIncreasing(pure.config)) =>
        LET cpl == pure.cpl
            i == pure.config.inaccuracy_threshold
            m == pure.config.mistake_threshold
            b == pure.config.blunder_threshold
        IN /\ pure.flag = "BEST" <=> cpl <= 0
           /\ pure.flag = "GOOD" <=> (cpl > 0 /\ cpl < i)
           /\ pure.flag = "INACCURACY" <=> (cpl > 0 /\ cpl >= i /\ cpl < m)
           /\ pure.flag = "MISTAKE" <=> (cpl > 0 /\ cpl >= m /\ cpl < b)
           /\ pure.flag = "BLUNDER" <=> (cpl > 0 /\ cpl >= b)

\* A loss exactly at the inaccuracy threshold.
C10_Witness ==
    /\ pure.op = "classify_move"
    /\ StrictlyIncreasing(pure.config)
    /\ pure.cpl > 0
    /\ pure.cpl = pure.config.inaccuracy_threshold
    /\ pure.flag = "INACCURACY"

\* C11: thresholds that are not strictly increasing are rejected before any
\* move is classified: no move gets a flag under such a configuration.
C11_BadThresholdsRejected ==
    (pure.op = "classify_move" /\ ~StrictlyIncreasing(pure.config)) =>
        pure.flag = "unset"

(***************************************************************************)
(* cache.py: make_cache_key on its own, for two positions and two          *)
(* configurations.                                                         *)
(***************************************************************************)
KeyFens == { <<>>, <<"e4">> }

KeyConfigs ==
    { [Config(1, FALSE, FALSE, both) EXCEPT
          !.engine_time_ms = t, !.depth = d, !.threads = th, !.hash_mb = h]
      : both \in BOOLEAN, t \in {100, 200}, d \in {"None", "12"},
        th \in {1, 2}, h \in {64, 128} }

InitKey ==
    /\ InitIdle
    /\ \E f1 \in KeyFens, f2 \in KeyFens, c1 \in KeyConfigs, c2 \in KeyConfigs :
          pure = [op |-> "make_cache_key", fen1 |-> f1, config1 |-> c1,
                  fen2 |-> f2, config2 |-> c2, done |-> FALSE,
                  key1 |-> <<>>, key2 |-> <<>>]

MakeCacheKeys ==
    /\ pure.op = "make_cache_key"
    /\ ~pure.done
    /\ pure' = [pure EXCEPT
                   !.key1 = make_cache_key(pure.fen1, engine_settings_hash(pure.config1)),
                   !.key2 = make_cache_key(pure.fen2, engine_settings_hash(pure.config2)),
                   !.done = TRUE]
    /\ UNCHANGED pipeline_vars

NextKey == MakeCacheKeys

SpecKey == InitKey /\ [][NextKey]_vars

\* The engine settings of a configuration.
EngineSettings(cfg) == <<cfg.engine_time_ms, cfg.depth, cfg.threads, cfg.hash_mb>>

\* C13: two cache keys are equal exactly when the positions are equal and
\* the four engine settings are equal, whatever else the configurations
\* hold.
C13_KeyIsFunctionOfPositionAndSettings ==
    (pure.op = "make_cache_key" /\ pure.done) =>
        (pure.key1 = pure.key2 <=>
            (pure.fen1 = pure.fen2
               /\ EngineSettings(pure.config1) = EngineSettings(pure.config2)))

\* Two configurations that differ in the thread count alone.
C13_Witness ==
    /\ pure.op = "make_cache_key" /\ pure.done
    /\ pure.fen1 = pure.fen2
    /\ pure.config1.threads # pure.config2.threads
    /\ pure.config1.engine_time_ms = pure.config2.engine_time_ms
    /\ pure.config1.depth = pure.config2.depth
    /\ pure.config1.hash_mb = pure.config2.hash_mb
    /\ pure.key1 # pure.key2

(***************************************************************************)
(* cache.py: write_cache_entry and load_cache on one file.  A key is a     *)
(* text; the empty text is <<>>.                                           *)
(***************************************************************************)
MaxWrites == 3

CacheKeys ==
    { <<>> } \cup
    { make_cache_key(f, engine_settings_hash(c)) :
        f \in KeyFens, c \in { Config(1, FALSE, FALSE, FALSE),
                               [Config(1, FALSE, FALSE, FALSE) EXCEPT !.depth = "12"] } }

\* Records as analyze_game builds them: every ply of every game shape.
CacheRecords ==
    { FreshRecord(ParsedGame("g1", sh.player_color, sh.moves_san, sh.clock_times),
                  Config(1, FALSE, FALSE, TRUE), ply, sh.moves_san[ply],
                  SubSeq(sh.moves_san, 1, ply - 1))
      : sh \in { x \in GameShapes : ParseSanOk(x.moves_san[2]) }, ply \in 1..2 }

InitCache ==
    /\ InitIdle
    /\ pure = [op |-> "cache_file", file |-> <<>>, written |-> <<>>,
               loaded |-> <<>>, done |-> FALSE]

\* write_cache_entry under a key not written before.
WriteCacheEntry(cache_key, analysis) ==
    /\ pure.op = "cache_file"
    /\ ~pure.done
    /\ Len(pure.file) < MaxWrites
    /\ cache_key \notin DOMAIN pure.written
    /\ pure' = [pure EXCEPT
                   !.file = write_cache_entry(@, cache_key, analysis),
                   !.written = (cache_key :> analysis) @@ @]
    /\ UNCHANGED pipeline_vars

LoadCache ==
    /\ pure.op = "cache_file"
    /\ ~pure.done
    /\ pure' = [pure EXCEPT !.loaded = load_cache(pure.file), !.done = TRUE]
    /\ UNCHANGED pipeline_vars

NextCache ==
    \/ \E k \in CacheKeys, a \in CacheRecords : WriteCacheEntry(k, a)
    \/ LoadCache

SpecCache == InitCache /\ [][NextCache]_vars

_INSTA_THRESHOLDS == [bullet |-> 1, blitz |-> 2, rapid |-> 3]

_TIME_TROUBLE_THRESHOLDS == [bullet |-> 5, blitz |-> 10, rapid |-> 30]

_parse_time_control(tc_raw) ==
    IF tc_raw.form = "N+M" THEN <<tc_raw.initial, tc_raw.increment>>
    ELSE IF tc_raw.form = "N" THEN <<tc_raw.initial, 0>>
    ELSE <<0, 0>>

_tc_category(tc) ==
    IF tc = "BULLET" THEN "bullet"
    ELSE IF tc = "BLITZ" THEN "blitz"
    ELSE IF tc \in {"RAPID", "DAILY"} THEN "rapid"
    ELSE "blitz"

\* The values of a sequence without repeats, in order of first appearance
\* (the key order of a dict filled in that order).
RECURSIVE FirstSeen(_)
FirstSeen(s) ==
    IF s = <<>> THEN <<>>
    ELSE LET rest == FirstSeen(SubSeq(s, 1, Len(s) - 1))
             x == s[Len(s)]
         IN IF \E i \in 1..Len(rest) : rest[i] = x THEN rest ELSE Append(rest, x)

\* The indices i of s with Keep(s[i]), ascending.
RECURSIVE IndicesWhere(_, _, _)
IndicesWhere(s, i, keep) ==
    IF i > Len(s) THEN <<>>
    ELSE (IF i \in keep THEN <<i>> ELSE <<>>) \o IndicesWhere(s, i + 1, keep)

\* The pairs (move, dt) of one game's clocked moves, already sorted by ply.
RECURSIVE DtPairsOfGame(_, _, _, _)
DtPairsOfGame(analyses, moves, i, increment) ==
    IF i > Len(moves) THEN <<>>
    ELSE LET prev_clock == analyses[moves[i - 1]].clock_time
             curr_clock == analyses[moves[i]].clock_time
             dt == prev_clock - curr_clock + increment
         IN <<[a |-> analyses[moves[i]], dt |-> IF dt < 0 THEN 0 ELSE dt]>>
            \o DtPairsOfGame(analyses, moves, i + 1, increment)

RECURSIVE DtPairsOfGames(_, _, _)
DtPairsOfGames(analyses, game_ids, increment) ==
    IF game_ids = <<>> THEN <<>>
    ELSE LET clocked == { i \in 1..Len(analyses) :
                            /\ analyses[i].is_player_move
                            /\ analyses[i].clock_time # NoClock
                            /\ analyses[i].game_id = Head(game_ids) }
             moves == SortByPly(IndicesWhere(analyses, 1, clocked), analyses)
         IN DtPairsOfGame(analyses, moves, 2, increment)
            \o DtPairsOfGames(analyses, Tail(game_ids), increment)

_compute_dt_s(analyses, increment) ==
    LET clocked == { i \in 1..Len(analyses) :
                        analyses[i].is_player_move /\ analyses[i].clock_time # NoClock }
        ids == IndicesWhere(analyses, 1, clocked)
        by_game == FirstSeen([j \in 1..Len(ids) |-> analyses[ids[j]].game_id])
    IN DtPairsOfGames(analyses, by_game, increment)

_is_time_trouble(clk_remain, tc_category) ==
    clk_remain <= _TIME_TROUBLE_THRESHOLDS[tc_category]

_is_insta_move(dt_s, tc_category) ==
    dt_s <= _INSTA_THRESHOLDS[tc_category]

\* max(tc_counts, key=tc_counts.get): the first key, in insertion order,
\* with the greatest count; BLITZ without games.
DominantTc(games_) ==
    IF games_ = <<>> THEN "BLITZ"
    ELSE LET tcs == FirstSeen([i \in 1..Len(games_) |-> games_[i].time_control])
             Count(tc) == Cardinality({ i \in 1..Len(games_) : games_[i].time_control = tc })
             best == CHOOSE j \in 1..Len(tcs) :
                        /\ \A k \in 1..Len(tcs) : Count(tcs[k]) <= Count(tcs[j])
                        /\ \A k \in 1..(j - 1) : Count(tcs[k]) < Count(tcs[j])
         IN tcs[best]

RECURSIVE SumDt(_)
SumDt(s) == IF s = <<>> THEN 0 ELSE Head(s) + SumDt(Tail(s))

\* statistics.median of a non-empty list, as a fraction.
Median(values) ==
    LET sorted == SortSeq(values, LAMBDA x, y : x < y)
        n == Len(sorted)
    IN IF n % 2 = 1 THEN <<sorted[(n + 1) \div 2], 1>>
       ELSE <<sorted[n \div 2] + sorted[n \div 2 + 1], 2>>

\* coverage < _MIN_CLOCK_COVERAGE with "<=" for "<".
InsufficientCoverage_Inclusive(moves_with_clock, n_player_moves) ==
    10 * moves_with_clock <= 7 * n_player_moves

\* coverage = moves_with_clock / len(player_moves); coverage < 0.7.  The
\* quotient as a double is below the double 0.7 exactly when 10 k < 7 n,
\* for any n a run can have.
InsufficientCoverage(moves_with_clock, n_player_moves) ==
    10 * moves_with_clock < 7 * n_player_moves

\* The moves of dt_pairs that satisfy / do not satisfy _is_insta_move.
InstaMoves(dt_pairs, category) ==
    SelectSeq(dt_pairs, LAMBDA p : _is_insta_move(p.dt, category))

NormalMoves(dt_pairs, category) ==
    SelectSeq(dt_pairs, LAMBDA p : ~_is_insta_move(p.dt, category))

Blunders(pairs) == Len(SelectSeq(pairs, LAMBDA p : p.a.flag = "BLUNDER"))

\* compute_time_stats: None (with the return statement that gave it) or the
\* TimeStats, with the two lists the moves were split into.
compute_time_stats(analyses, games_) ==
    LET player_moves == SelectSeq(analyses, LAMBDA a : a.is_player_move)
        moves_with_clock ==
            Len(SelectSeq(player_moves, LAMBDA a : a.clock_time # NoClock))
        category == _tc_category(DominantTc(games_))
        increment == IF games_ # <<>>
                     THEN _parse_time_control(games_[1].time_control_raw)[2]
                     ELSE 0
        dt_pairs == _compute_dt_s(analyses, increment)
        dt_values == [i \in 1..Len(dt_pairs) |-> dt_pairs[i].dt]
        median_dt == Median(dt_values)
        insta_moves == InstaMoves(dt_pairs, category)
        normal_moves == NormalMoves(dt_pairs, category)
    IN IF player_moves = <<>> THEN [kind |-> "None", line |-> 103]
       ELSE IF InsufficientCoverage(moves_with_clock, Len(player_moves))
       THEN [kind |-> "None", line |-> 109]
       ELSE IF dt_pairs = <<>> THEN [kind |-> "None", line |-> 133]
       ELSE [kind |-> "TimeStats",
             clock_coverage |-> <<moves_with_clock, Len(player_moves)>>,
             avg_dt_s |-> <<SumDt(dt_values), Len(dt_values)>>,
             median_dt_s |-> median_dt,
             p90_dt_s |-> SortSeq(dt_values, LAMBDA x, y : x < y)
                             [((Len(dt_values) * 9) \div 10) + 1],
             time_trouble_rate |->
                 <<Len(SelectSeq(dt_pairs, LAMBDA p :
                          /\ p.a.clock_time # NoClock
                          /\ _is_time_trouble(p.a.clock_time, category))),
                   Len(dt_pairs)>>,
             blunder_rate_insta |->
                 IF insta_moves # <<>>
                 THEN <<Blunders(insta_moves), Len(insta_moves)>> ELSE <<0, 1>>,
             blunder_rate_normal |->
                 IF normal_moves # <<>>
                 THEN <<Blunders(normal_moves), Len(normal_moves)>> ELSE <<0, 1>>,
             autopilot_blunders |-> Blunders(insta_moves),
             calculation_failures |->
                 Len(SelectSeq(dt_pairs, LAMBDA p :
                        /\ p.a.flag = "BLUNDER"
                        /\ ~_is_insta_move(p.dt, category)
                        /\ p.dt * median_dt[2] > median_dt[1])),
             category |-> category,
             insta_moves |-> insta_moves,
             normal_moves |-> normal_moves]

MaxMoves == 10

TimeControls == {"BULLET", "BLITZ", "RAPID", "DAILY", "UNKNOWN"}

RawTimeControls ==
    { [form |-> "N", initial |-> 300, increment |-> 0],
      [form |-> "N+M", initial |-> 180, increment |-> 1],
      [form |-> "1/N", initial |-> 86400, increment |-> 0] }

\* The seconds the clock loses per move of a game (it gains when negative).
ClockSteps == {0 - 1, 1, 2, 3, 4}

\* The records of one game: n moves of the player at the odd plies, the
\* first k with a clock sample, and, with opp, a reply of the opponent.
TimeRecords(game_id, n, k, step, flag, opp) ==
    [i \in 1..n |->
        [game_id |-> game_id, ply |-> 2 * i - 1, is_player_move |-> TRUE,
         clock_time |-> IF i <= k THEN 100 - step * i ELSE NoClock,
         flag |-> flag]]
    \o (IF opp THEN <<[game_id |-> game_id, ply |-> 2, is_player_move |-> FALSE,
                       clock_time |-> 99, flag |-> "BLUNDER"]>>
        ELSE <<>>)

TimeGame(game_id, tc, raw) ==
    [game_id |-> game_id, time_control |-> tc, time_control_raw |-> raw]

\* A second game, when there is one: two clocked moves.
SecondGames ==
    { [tc |-> tc, step |-> st] : tc \in {"BULLET", "RAPID"}, st \in {1, 3} }

InitTime ==
    /\ InitIdle
    /\ \E n \in 0..MaxMoves, tc \in TimeControls, raw \in RawTimeControls,
          step \in ClockSteps, bl \in BOOLEAN, opp \in BOOLEAN :
       \E k \in 0..n :
          \/ pure = [op |-> "compute_time_stats",
                     analyses |-> TimeRecords("g1", n, k, step,
                                     IF bl THEN "BLUNDER" ELSE "GOOD", opp),
                     games |-> <<TimeGame("g1", tc, raw)>>,
                     done |-> FALSE, result |-> [kind |-> "unset"]]
          \/ \E g2 \in SecondGames :
                pure = [op |-> "compute_time_stats",
                        analyses |-> TimeRecords("g2", 2, 2, g2.step, "BLUNDER", FALSE)
                                     \o TimeRecords("g1", n, k, step,
                                           IF bl THEN "BLUNDER" ELSE "GOOD", opp),
                        games |-> <<TimeGame("g1", tc, raw), TimeGame("g2", g2.tc, [form |-> "N", initial |-> 60, increment |-> 0])>>,
                        done |-> FALSE, result |-> [kind |-> "unset"]]

ComputeTimeStats ==
    /\ pure.op = "compute_time_stats"
    /\ ~pure.done
    /\ pure' = [pure EXCEPT !.result = compute_time_stats(pure.analyses, pure.games),
                            !.done = TRUE]
    /\ UNCHANGED pipeline_vars

NextTime == ComputeTimeStats

SpecTime == InitTime /\ [][NextTime]_vars

\* The player's moves of the input and those with a clock sample.
PlayerMoveIdx == { i \in 1..Len(pure.analyses) : pure.analyses[i].is_player_move }

ClockedMoveIdx == { i \in PlayerMoveIdx : pure.analyses[i].clock_time # NoClock }

\* C16: with fewer than 70% of the player's moves clocked there are no
\* statistics; with 70% or more they are there whenever some game has two
\* clocked moves of the player to take a think-time from.
C16_CoverageThreshold ==
    (pure.op = "compute_time_stats" /\ pure.done /\ PlayerMoveIdx # {}) =>
        LET n == Cardinality(PlayerMoveIdx)
            k == Cardinality(ClockedMoveIdx)
        IN IF 10 * k < 7 * n
           THEN pure.result.kind = "None"
           ELSE pure.result.kind = "TimeStats" <=>
                   \E i, j \in ClockedMoveIdx :
                       /\ i # j
                       /\ pure.analyses[i].game_id = pure.analyses[j].game_id

\* Exactly 7 of 10 moves clocked.
C16_Witness ==
    /\ pure.op = "compute_time_stats" /\ pure.done
    /\ Cardinality(PlayerMoveIdx) = 10
    /\ Cardinality(ClockedMoveIdx) = 7
    /\ pure.result.kind = "TimeStats"

\* The fast-move threshold of a time control: 1 s bullet, 2 s blitz, 3 s
\* rapid or slower.
FastThreshold(tc) ==
    IF tc = "BULLET" THEN 1 ELSE IF tc = "BLITZ" THEN 2 ELSE 3

TimeControlOf(game_id) ==
    LET g == CHOOSE i \in 1..Len(pure.games) : pure.games[i].game_id = game_id
    IN pure.games[g].time_control

\* C17: a move is in the fast list exactly when its think-time is below
\* the threshold of its game's time control, and in the normal list
\* otherwise.
C17_FastIsBelowThreshold ==
    (pure.op = "compute_time_stats" /\ pure.done /\ pure.result.kind = "TimeStats"
        /\ \A i \in 1..Len(pure.games) : pure.games[i].time_control # "UNKNOWN") =>
        /\ \A i \in 1..Len(pure.result.insta_moves) :
              LET p == pure.result.insta_moves[i]
              IN p.dt < FastThreshold(TimeControlOf(p.a.game_id))
        /\ \A i \in 1..Len(pure.result.normal_moves) :
              LET p == pure.result.normal_moves[i]
              IN p.dt >= FastThreshold(TimeControlOf(p.a.game_id))

(***************************************************************************)
(* aggregate.py: the six motif detectors and the phase statistics of       *)
(* compute_summary.  What python-chess answers about a position or a move  *)
(* is read from the names: a position is "open" (the mover's king on its   *)
(* back rank behind one shield pawn), "castled" (behind three) or "bad"    *)
(* (not a FEN: chess.Board raises); a move in UCI is a capture, a check, a *)
(* knight fork, quiet, or "zzzz" (not UCI: chess.Move.from_uci raises).    *)
(* A bucket's meta dicts are left out.                                     *)
(***************************************************************************)
_PIECE_VALUES == [pawn |-> 1, knight |-> 3, bishop |-> 3, rook |-> 5, queen |-> 9, king |-> 0]

\* chess.Board(fen) returns.
BoardOk(fen) == fen # "bad"

\* chess.Move.from_uci(uci) returns.
FromUciOk(uci) == uci # "zzzz"

\* len(uci): every move text that is not empty has four characters.
UciLen(uci) == IF uci = "" THEN 0 ELSE 4

\* board.is_capture(move), board.gives_check(move), the piece on the
\* move's target and source square.
IsCapture(uci) == uci \in {"f3e5", "e4d5"}

GivesCheck(uci) == uci = "d1h5"

CapturedPiece(uci) == IF uci = "f3e5" THEN "knight" ELSE "pawn"

\* _detect_knight_fork
_detect_knight_fork(uci) == uci = "e5f7"

\* board.king(color) stands on the colour's back ranks, and the number of
\* the colour's pawns on the three files in front of it.
KingOnBackRank(fen) == fen \in {"open", "castled"}

ShieldPawns(fen) == IF fen = "castled" THEN 3 ELSE 1

\* A candidate: the sort key, the record, the subtype and its confidence
\* (in hundredths).
Candidate(key, a, subtype, confidence) ==
    [key |-> key, a |-> a, subtype |-> subtype, confidence |-> confidence]

\* The place of a candidate in a list sorted by descending key: behind
\* every candidate whose key is not smaller, as a stable sort leaves it.
RECURSIVE InsertBySeverity(_, _)
InsertBySeverity(sorted, c) ==
    IF sorted = <<>> THEN <<c>>
    ELSE IF Head(sorted).key >= c.key
    THEN <<Head(sorted)>> \o InsertBySeverity(Tail(sorted), c)
    ELSE <<c>> \o sorted

\* The candidates left in the order they were found.
SortBySeverity_Unsorted(candidates) == candidates

\* candidates.sort(key=lambda x: x[0], reverse=True)
RECURSIVE SortBySeverity(_)
SortBySeverity(candidates) ==
    IF candidates = <<>> THEN <<>>
    ELSE LET n == Len(candidates)
         IN InsertBySeverity(SortBySeverity(SubSeq(candidates, 1, n - 1)),
                             candidates[n])

MotifExample(c) ==
    [game_id |-> c.a.game_id, ply |-> c.a.ply, fen |-> c.a.fen_before,
     move_san |-> c.a.move_san, best_move_san |-> c.a.best_move_san,
     eval_swing |-> c.a.cpl, pv |-> c.a.pv,
     subtype |-> c.subtype, confidence |-> c.confidence]

\* bucket.subtype_counts: the number of candidates of each subtype.
SubtypeCounts(candidates) ==
    [s \in { candidates[i].subtype : i \in 1..Len(candidates) } \ {""} |->
        Cardinality({ i \in 1..Len(candidates) : candidates[i].subtype = s })]

\* The bucket a detector fills from its sorted candidates: their number,
\* the first three as examples.  severity lists the sort keys of the
\* examples, which the program does not store.
MotifBucket(name, sorted) ==
    [name |-> name,
     count |-> Len(sorted),
     examples |-> [i \in 1..Min(3, Len(sorted)) |-> MotifExample(sorted[i])],
     subtype_counts |-> SubtypeCounts(sorted),
     severity |-> [i \in 1..Min(3, Len(sorted)) |-> sorted[i].key]]

\* _detect_hanging_pieces: the body of the loop for one record, the list of
\* the candidates it appends.
HangingProbe(a) ==
    IF ~a.is_player_move \/ a.cpl < 200 THEN <<>>
    ELSE IF a.best_move_uci = "" \/ UciLen(a.best_move_uci) < 4 THEN <<>>
    ELSE IF ~BoardOk(a.fen_before) \/ ~ParseSanOk(a.move_san) THEN <<>>
    ELSE IF a.pv # <<>> /\ ~FromUciOk(a.pv[1]) THEN <<>>
    ELSE IF a.pv = <<>> \/ ~IsCapture(a.pv[1]) THEN <<>>
    ELSE LET cap_value == _PIECE_VALUES[CapturedPiece(a.pv[1])]
         IN IF cap_value >= 3 \/ (a.cpl >= 300 /\ cap_value >= 1)
            THEN <<Candidate(a.cpl, a, "hang_en_prise", 90)>>
            ELSE <<Candidate(a.cpl, a, "", 0)>>

_detect_hanging_pieces(analyses) ==
    MotifBucket("Hanging Pieces",
        SortBySeverity(Flatten([i \in 1..Len(analyses) |-> HangingProbe(analyses[i])])))

\* _detect_missed_tactics: what the try block leaves in subtype and
\* confidence; an exception leaves both as they were set before it.
MissedSubtype(a) ==
    IF ~BoardOk(a.fen_before) THEN <<"", 0>>
    ELSE IF a.best_move_uci = "" THEN <<"", 0>>
    ELSE IF ~FromUciOk(a.best_move_uci) THEN <<"", 0>>
    ELSE LET is_check == GivesCheck(a.best_move_uci)
             is_capture == IsCapture(a.best_move_uci)
             has_mate == a.eval_best.kind = "mate" /\ a.eval_best.value > 0
         IN IF _detect_knight_fork(a.best_move_uci) THEN <<"motif_knight_fork", 85>>
            ELSE IF is_check /\ (a.cpl >= 200 \/ has_mate)
            THEN <<"missed_forcing_check", IF has_mate THEN 85 ELSE 70>>
            ELSE IF is_capture /\ a.cpl >= 150
            THEN LET cap_value == _PIECE_VALUES[CapturedPiece(a.best_move_uci)]
                 IN IF cap_value >= 1
                    THEN <<"missed_forcing_capture", IF cap_value >= 3 THEN 80 ELSE 65>>
                    ELSE <<"", 0>>
            ELSE <<"", 0>>

MissedProbe(a) ==
    IF ~a.is_player_move \/ a.cpl < 150 THEN <<>>
    ELSE IF to_cp_clamped(a.eval_before) < 0 - 100 THEN <<>>
    ELSE <<Candidate(a.cpl, a, MissedSubtype(a)[1], MissedSubtype(a)[2])>>

_detect_missed_tactics(analyses) ==
    MotifBucket("Missed Tactics",
        SortBySeverity(Flatten([i \in 1..Len(analyses) |-> MissedProbe(analyses[i])])))

\* _detect_king_safety
KingSafetyProbe(a) ==
    IF ~a.is_player_move \/ a.phase # "MIDDLEGAME" \/ a.cpl < 200 THEN <<>>
    ELSE IF ~BoardOk(a.fen_before) THEN <<>>
    ELSE IF KingOnBackRank(a.fen_before) /\ ShieldPawns(a.fen_before) < 2
    THEN <<Candidate(a.cpl, a, "", 0)>>
    ELSE <<>>

_detect_king_safety(analyses) ==
    MotifBucket("King Safety",
        SortBySeverity(Flatten([i \in 1..Len(analyses) |-> KingSafetyProbe(analyses[i])])))

\* _detect_endgame_technique
_detect_endgame_technique(analyses) ==
    LET endgame_moves == IndicesWhere(analyses, 1,
            { i \in 1..Len(analyses) :
                analyses[i].is_player_move /\ analyses[i].phase = "ENDGAME" })
        n == Len(endgame_moves)
        total_cpl == SumSeq([k \in 1..n |-> analyses[endgame_moves[k]].cpl])
        blunders == Cardinality({ k \in 1..n : analyses[endgame_moves[k]].flag = "BLUNDER" })
        inaccurate_moves == Flatten([k \in 1..n |->
            IF analyses[endgame_moves[k]].cpl > 20
            THEN <<Candidate(analyses[endgame_moves[k]].cpl, analyses[endgame_moves[k]], "", 0)>>
            ELSE <<>>])
    IN IF n = 0 THEN MotifBucket("Endgame Technique", <<>>)
       ELSE IF total_cpl > 30 * n /\ 10 * blunders < n
       THEN MotifBucket("Endgame Technique", SortBySeverity(inaccurate_moves))
       ELSE MotifBucket("Endgame Technique", <<>>)

\* _detect_ignored_threats
IgnoredProbe(a) ==
    IF ~a.is_player_move \/ a.cpl < 250 \/ a.pv = <<>> THEN <<>>
    ELSE IF ~BoardOk(a.fen_before) \/ ~ParseSanOk(a.move_san) THEN <<>>
    ELSE IF ~FromUciOk(a.pv[1]) THEN <<>>
    ELSE LET is_check == GivesCheck(a.pv[1])
             is_capture == IsCapture(a.pv[1])
             has_mate == a.eval_after.kind = "mate" /\ a.eval_after.value < 0
         IN IF ~is_check /\ ~is_capture THEN <<>>
            ELSE IF is_check
            THEN <<Candidate(a.cpl, a, "allowed_forcing_check",
                             IF has_mate THEN 85 ELSE 70)>>
            ELSE <<Candidate(a.cpl, a, "allowed_forcing_capture",
                             IF _PIECE_VALUES[CapturedPiece(a.pv[1])] >= 3 THEN 85 ELSE 70)>>

_detect_ignored_threats(analyses) ==
    MotifBucket("Ignored Threats",
        SortBySeverity(Flatten([i \in 1..Len(analyses) |-> IgnoredProbe(analyses[i])])))

\* _detect_material_givebacks: the candidate of the player's i-th move of
\* one game, the moves sorted by ply: the first of the next three moves
\* whose evaluation is 250 or more below this move's, when this move won
\* 200 or more.
GivebackOf(analyses, moves, i) ==
    LET current == analyses[moves[i]]
        spike == to_cp_clamped(current.eval_after) - to_cp_clamped(current.eval_before)
        drops == [j \in 1..Len(moves) |->
                    to_cp_clamped(current.eval_after)
                    - to_cp_clamped(analyses[moves[j]].eval_after)]
        hits == { j \in (i + 1)..Min(i + 3, Len(moves)) : drops[j] >= 250 }
    IN IF spike < 200 \/ hits = {} THEN <<>>
       ELSE LET j == CHOOSE j \in hits : \A k \in hits : j <= k
            IN <<Candidate(drops[j], analyses[moves[j]], "", 0)>>

GivebacksOfGame(analyses, game_id) ==
    LET moves == SortByPly(IndicesWhere(analyses, 1,
                     { i \in 1..Len(analyses) :
                         analyses[i].is_player_move /\ analyses[i].game_id = game_id }),
                     analyses)
    IN Flatten([i \in 1..Len(moves) |-> GivebackOf(analyses, moves, i)])

_detect_material_givebacks(analyses) ==
    LET player == IndicesWhere(analyses, 1,
                     { i \in 1..Len(analyses) : analyses[i].is_player_move })
        by_game == FirstSeen([k \in 1..Len(player) |-> analyses[player[k]].game_id])
    IN MotifBucket("Material Givebacks",
          SortBySeverity(Flatten([g \in 1..Len(by_game) |->
                                     GivebacksOfGame(analyses, by_game[g])])))

\* The six detectors in the order compute_summary calls them.
DetectorBuckets(analyses) ==
    <<_detect_hanging_pieces(analyses),
      _detect_missed_tactics(analyses),
      _detect_ignored_threats(analyses),
      _detect_king_safety(analyses),
      _detect_endgame_technique(analyses),
      _detect_material_givebacks(analyses)>>

Phases == <<"OPENING", "MIDDLEGAME", "ENDGAME">>

\* One row of the phase statistics over the given moves; a quotient a / b
\* is the pair <<a, b>>, 0.0 the pair <<0, 1>>.
PhaseStats(phase, analyses, moves) ==
    LET n == Cardinality(moves)
        Flagged(f) == Cardinality({ i \in moves : analyses[i].flag = f })
        total_cpl == SumSeq([k \in 1..Len(analyses) |->
                                IF k \in moves THEN analyses[k].cpl ELSE 0])
    IN IF n = 0
       THEN [phase |-> phase, total_moves |-> 0, acpl |-> <<0, 1>>,
             blunders |-> 0, mistakes |-> 0, inaccuracies |-> 0,
             blunders_per_100 |-> <<0, 1>>, mistakes_per_100 |-> <<0, 1>>,
             inaccuracies_per_100 |-> <<0, 1>>]
       ELSE [phase |-> phase, total_moves |-> n, acpl |-> <<total_cpl, n>>,
             blunders |-> Flagged("BLUNDER"), mistakes |-> Flagged("MISTAKE"),
             inaccuracies |-> Flagged("INACCURACY"),
             blunders_per_100 |-> <<Flagged("BLUNDER") * 100, n>>,
             mistakes_per_100 |-> <<Flagged("MISTAKE") * 100, n>>,
             inaccuracies_per_100 |-> <<Flagged("INACCURACY") * 100, n>>]

\* _compute_phase_stats with every record grouped, the opponent's too.
_compute_phase_stats_AllMoves(analyses) ==
    [p \in 1..3 |->
        PhaseStats(Phases[p], analyses,
            { i \in 1..Len(analyses) : analyses[i].phase = Phases[p] })]

\* _compute_phase_stats
_compute_phase_stats(analyses) ==
    [p \in 1..3 |->
        PhaseStats(Phases[p], analyses,
            { i \in 1..Len(analyses) :
                analyses[i].is_player_move /\ analyses[i].phase = Phases[p] })]

\* game_urls = {g.game_id: g.url for g in games}, for the games of the input.
MotifGameUrls == [g1 |-> "https://chess.com/game/live/g1",
                  g2 |-> "https://chess.com/game/live/g2"]

SwingMove(a, game_urls) ==
    [game_id |-> a.game_id, ply |-> a.ply, move_san |-> a.move_san,
     fen_before |-> a.fen_before, best_move_san |-> a.best_move_san,
     cpl |-> a.cpl, eval_before |-> a.eval_before, eval_after |-> a.eval_after,
     pv |-> a.pv, phase |-> a.phase,
     game_url |-> IF a.game_id \in DOMAIN game_urls THEN game_urls[a.game_id] ELSE ""]

\* The loop of _top_swing_moves over the sorted moves: a move is taken
\* unless n are taken already or one of its game and phase was taken.
RECURSIVE TakeSwings(_, _, _, _, _)
TakeSwings(player_moves, seen, swings, game_urls, n) ==
    IF player_moves = <<>> \/ Len(swings) >= n THEN swings
    ELSE LET a == Head(player_moves).a
             key == <<a.game_id, a.phase>>
         IN IF key \in seen
            THEN TakeSwings(Tail(player_moves), seen, swings, game_urls, n)
            ELSE TakeSwings(Tail(player_moves), seen \cup {key},
                            Append(swings, SwingMove(a, game_urls)), game_urls, n)

\* _top_swing_moves
_top_swing_moves(analyses, game_urls, n) ==
    LET player_moves == Flatten([i \in 1..Len(analyses) |->
            IF analyses[i].is_player_move /\ analyses[i].cpl > 0
            THEN <<Candidate(analyses[i].cpl, analyses[i], "", 0)>> ELSE <<>>])
    IN TakeSwings(SortBySeverity(player_moves), {}, <<>>, game_urls, n)

\* compute_summary: the move count, the average loss, the phase rows, the
\* swing moves and the buckets that hold a candidate.  The rows per time
\* control and per game, the time statistics and the opening averages are
\* computed from the same records and touch none of these.
compute_summary(analyses) ==
    LET player_moves == { i \in 1..Len(analyses) : analyses[i].is_player_move }
        n == Cardinality(player_moves)
        total_cpl == SumSeq([k \in 1..Len(analyses) |->
                                IF k \in player_moves THEN analyses[k].cpl ELSE 0])
        buckets == DetectorBuckets(analyses)
    IN [total_moves |-> n,
        acpl |-> IF n > 0 THEN <<total_cpl, n>> ELSE <<0, 1>>,
        phase_stats |-> _compute_phase_stats(analyses),
        swing_moves |-> _top_swing_moves(analyses, MotifGameUrls, 10),
        motifs |-> Flatten([d \in 1..6 |->
                      IF buckets[d].count > 0 THEN <<buckets[d]>> ELSE <<>>])]

\* Bounds: the records of one input; the records of an input made for the
\* giveback detector; the moves of a long endgame.
MaxCandidates == 4
MaxGivebackMoves == 5
MaxEndgameMoves == 11

\* What the record's position, move, best move and best line are.
PositionKinds ==
    [capture |-> [fen |-> "open", san |-> "e4", best |-> "f3e5", pv |-> <<"f3e5">>],
     check   |-> [fen |-> "open", san |-> "e4", best |-> "d1h5", pv |-> <<"d1h5">>],
     quiet   |-> [fen |-> "castled", san |-> "e4", best |-> "e5f7", pv |-> <<"g1f3">>],
     badsan  |-> [fen |-> "open", san |-> "Zz", best |-> "e4d5", pv |-> <<"e4d5">>],
     baduci  |-> [fen |-> "open", san |-> "e4", best |-> "zzzz", pv |-> <<"zzzz">>],
     nopv    |-> [fen |-> "open", san |-> "e4", best |-> "", pv |-> <<>>],
     badfen  |-> [fen |-> "bad", san |-> "e4", best |-> "f3e5", pv |-> <<"f3e5">>]]

MotifRecord(game_id, ply, o) ==
    [game_id |-> game_id, ply |-> ply, is_player_move |-> o.player,
     cpl |-> o.cpl, phase |-> o.phase,
     flag |-> classify_move(o.cpl, Config(1, FALSE, FALSE, FALSE)),
     side_to_move |-> "WHITE",
     fen_before |-> PositionKinds[o.kind].fen,
     move_san |-> PositionKinds[o.kind].san,
     move_uci |-> Uci(PositionKinds[o.kind].san),
     best_move_uci |-> PositionKinds[o.kind].best,
     best_move_san |-> PositionKinds[o.kind].best,
     pv |-> PositionKinds[o.kind].pv,
     eval_before |-> EvalCp(o.before), eval_after |-> EvalCp(o.after),
     eval_best |-> EvalCp(o.after + o.cpl)]

MotifOption(player, cpl, phase, kind, before, after, game_id) ==
    [player |-> player, cpl |-> cpl, phase |-> phase, kind |-> kind,
     before |-> before, after |-> after, game_id |-> game_id]

\* Middlegame records for the detectors that probe the position.
ProbeOptions ==
    { MotifOption(TRUE, c, "MIDDLEGAME", k, 0, 0, "g1") :
        c \in {250, 400}, k \in {"capture", "check", "quiet"} }
    \cup { MotifOption(TRUE, 400, "MIDDLEGAME", k, 0, 0, "g1") :
             k \in {"badsan", "baduci", "nopv", "badfen"} }
    \cup { MotifOption(TRUE, 150, "MIDDLEGAME", "capture", 0, 0, "g1"),
           MotifOption(TRUE, 400, "MIDDLEGAME", "capture", 0 - 200, 0 - 200, "g1"),
           MotifOption(FALSE, 400, "MIDDLEGAME", "capture", 0, 0, "g1") }

\* Records of every phase and flag, the player's and the opponent's.
PhaseOptions ==
    { MotifOption(TRUE, c, p, "quiet", 0, 0, "g1") :
        c \in {25, 60, 250}, p \in {"OPENING", "MIDDLEGAME", "ENDGAME"} }
    \cup { MotifOption(FALSE, 250, p, "quiet", 0, 0, "g1") :
             p \in {"OPENING", "MIDDLEGAME", "ENDGAME"} }

\* The player's moves of two games with rising and falling evaluations.
GivebackOptions ==
    { MotifOption(TRUE, 0, "MIDDLEGAME", "quiet", 0, e, g) :
        e \in {0 - 300, 0, 300, 600}, g \in {"g1", "g2"} }

\* A long endgame of the player: k blunders, then moves that lose c each.
EndgameRecords(n, k, c) ==
    [i \in 1..n |->
        MotifRecord("g1", i,
            MotifOption(TRUE, IF i <= k THEN 250 ELSE c, "ENDGAME", "quiet",
                        0, 0, "g1"))]

\* The first game's plies ascend with the list, the second's descend.
PlyAt(game_id, i) == IF game_id = "g1" THEN i ELSE 2 * MaxGivebackMoves - i

InitMotif ==
    /\ InitIdle
    /\ \/ \E n \in 0..MaxCandidates :
            \E f \in [1..n -> ProbeOptions] \cup [1..n -> PhaseOptions] :
               pure = [op |-> "compute_summary",
                       analyses |-> [i \in 1..n |-> MotifRecord("g1", i, f[i])],
                       done |-> FALSE]
       \/ \E n \in 0..MaxGivebackMoves :
            \E f \in [1..n -> GivebackOptions] :
               pure = [op |-> "compute_summary",
                       analyses |-> [i \in 1..n |->
                           MotifRecord(f[i].game_id, PlyAt(f[i].game_id, i), f[i])],
                       done |-> FALSE]
       \/ \E n \in 0..MaxEndgameMoves, c \in {10, 25, 60} :
            \E k \in 0..Min(n, 2) :
               pure = [op |-> "compute_summary",
                       analyses |-> EndgameRecords(n, k, c),
                       done |-> FALSE]

ComputeSummary ==
    /\ pure.op = "compute_summary"
    /\ ~pure.done
    /\ pure' = [op |-> "compute_summary", analyses |-> pure.analyses,
                done |-> TRUE,
                buckets |-> DetectorBuckets(pure.analyses),
                summary |-> compute_summary(pure.analyses)]
    /\ UNCHANGED pipeline_vars

NextMotif == ComputeSummary

SpecMotif == InitMotif /\ [][NextMotif]_vars

MotifDone == pure.op = "compute_summary" /\ pure.done

\* C18: the bucket of each of the six detectors lists at most three
\* examples, in descending order of the detector's sort key (the
\* centipawn-loss shown as eval_swing for five of them, the evaluation drop
\* for the givebacks), and its count is at least the number of examples.
C18_BucketsHoldTopThree ==
    MotifDone =>
        \A d \in 1..6 :
            LET b == pure.buckets[d]
            IN /\ Len(b.examples) <= 3
               /\ b.count >= Len(b.examples)
               /\ \A i, j \in 1..Len(b.examples) :
                     i < j => b.severity[i] >= b.severity[j]
               /\ d # 6 => \A i \in 1..Len(b.examples) :
                              b.examples[i].eval_swing = b.severity[i]

\* Four candidates found in ascending order of loss by each of the four
\* probing detectors: three are listed, the worst first.
C18_Witness ==
    /\ MotifDone
    /\ Len(pure.analyses) = 4
    /\ pure.analyses[1].cpl < pure.analyses[4].cpl
    /\ \A d \in 1..4 :
          /\ pure.buckets[d].count = 4
          /\ Len(pure.buckets[d].examples) = 3
          /\ pure.buckets[d].severity[1] > pure.buckets[d].severity[3]
          /\ pure.buckets[d].examples[1].ply = 4

\* The candidates of the four probing detectors (hanging pieces, missed
\* tactics, ignored threats, king safety): the records that pass the
\* detector's filter, and those of them whose probing raises.
PassesFilter(d, a) ==
    /\ a.is_player_move
    /\ CASE d = 1 -> a.cpl >= 200 /\ a.best_move_uci # ""
         [] d = 2 -> a.cpl >= 150 /\ to_cp_clamped(a.eval_before) >= 0 - 100
         [] d = 3 -> a.cpl >= 250 /\ a.pv # <<>>
         [] d = 4 -> a.cpl >= 200 /\ a.phase = "MIDDLEGAME"

ProbeRaises(d, a) ==
    \/ ~BoardOk(a.fen_before)
    \/ CASE d = 1 -> ~ParseSanOk(a.move_san) \/ (a.pv # <<>> /\ ~FromUciOk(a.pv[1]))
         [] d = 2 -> a.best_move_uci # "" /\ ~FromUciOk(a.best_move_uci)
         [] d = 3 -> ~ParseSanOk(a.move_san) \/ ~FromUciOk(a.pv[1])
         [] d = 4 -> FALSE

\* C19: a candidate whose probing raises is neither counted nor listed by
\* the detector, and the other candidates are still processed.
C19_RaisingCandidateDropped ==
    MotifDone =>
        \A d \in 1..4 :
            LET b == pure.buckets[d]
                raising == { i \in 1..Len(pure.analyses) :
                               PassesFilter(d, pure.analyses[i])
                               /\ ProbeRaises(d, pure.analyses[i]) }
                sound == { i \in 1..Len(pure.analyses) :
                             PassesFilter(d, pure.analyses[i])
                             /\ ~ProbeRaises(d, pure.analyses[i]) }
            IN /\ b.count <= Cardinality(sound)
               /\ \A i \in raising : \A k \in 1..Len(b.examples) :
                     ~(b.examples[k].game_id = pure.analyses[i].game_id
                       /\ b.examples[k].ply = pure.analyses[i].ply)
               /\ \A i \in sound :
                     (d = 2 /\ Cardinality(sound) <= 3) =>
                        \E k \in 1..Len(b.examples) :
                           b.examples[k].ply = pure.analyses[i].ply

\* C20: the three phase rows add up to the player's moves: their blunders,
\* mistakes and inaccuracies to the numbers of the player's moves with
\* that flag, their move counts to the summary's total; the opponent's
\* moves are in none of them.
C20_PhaseRowsAddUp ==
    MotifDone =>
        LET rows == pure.summary.phase_stats
            Player(f) == Cardinality({ i \in 1..Len(pure.analyses) :
                            pure.analyses[i].is_player_move
                            /\ pure.analyses[i].flag = f })
        IN /\ Len(rows) = 3
           /\ SumSeq([p \in 1..3 |-> rows[p].blunders]) = Player("BLUNDER")
           /\ SumSeq([p \in 1..3 |-> rows[p].mistakes]) = Player("MISTAKE")
           /\ SumSeq([p \in 1..3 |-> rows[p].inaccuracies]) = Player("INACCURACY")
           /\ SumSeq([p \in 1..3 |-> rows[p].total_moves]) = pure.summary.total_moves
           /\ pure.summary.total_moves =
                 Cardinality({ i \in 1..Len(pure.analyses) :
                                 pure.analyses[i].is_player_move })

\* The player blunders in two phases and errs less in one, and the
\* opponent blunders too.
C20_Witness ==
    /\ MotifDone
    /\ \E i \in 1..Len(pure.analyses) :
          ~pure.analyses[i].is_player_move /\ pure.analyses[i].flag = "BLUNDER"
    /\ pure.summary.phase_stats[1].blunders = 1
    /\ pure.summary.phase_stats[3].blunders = 1
    /\ pure.summary.phase_stats[2].inaccuracies = 1
    /\ pure.summary.total_moves = 3

\* The swing moves of the summary as places in the input.
SwingIdx ==
    { i \in 1..Len(pure.analyses) :
        \E k \in 1..Len(pure.summary.swing_moves) :
            /\ pure.summary.swing_moves[k].game_id = pure.analyses[i].game_id
            /\ pure.summary.swing_moves[k].ply = pure.analyses[i].ply }

EndgameIdx ==
    { i \in 1..Len(pure.analyses) :
        pure.analyses[i].is_player_move /\ pure.analyses[i].phase = "ENDGAME" }

\* C28: the Endgame Technique bucket holds a candidate only when the
\* player's endgame moves lose more than 30 on average and fewer than one
\* in ten of them is a blunder; its examples are endgame moves of the
\* player that lost more than 20, none of them flagged Blunder.
C28_EndgameTechniqueIsSmallLeaks ==
    MotifDone =>
        LET b == pure.buckets[5]
            n == Cardinality(EndgameIdx)
            total_cpl == SumSeq([i \in 1..Len(pure.analyses) |->
                            IF i \in EndgameIdx THEN pure.analyses[i].cpl ELSE 0])
            blunders == Cardinality({ i \in EndgameIdx :
                                        pure.analyses[i].flag = "BLUNDER" })
        IN /\ b.count > 0 => (total_cpl > 30 * n /\ 10 * blunders < n)
           /\ \A k \in 1..Len(b.examples) :
                 \E i \in EndgameIdx :
                    /\ pure.analyses[i].game_id = b.examples[k].game_id
                    /\ pure.analyses[i].ply = b.examples[k].ply
                    /\ pure.analyses[i].cpl > 20
                    /\ pure.analyses[i].flag # "BLUNDER"

(***************************************************************************)
(* Properties of analyze_all_games and analyze_game.                       *)
(***************************************************************************)
\* The analyze_game calls of the current run, each with its game.
CallsOfRun ==
    UNION { { [game |-> games[g], call |-> calls[g][i]] : i \in 1..Len(calls[g]) }
            : g \in 1..NumGames }

\* The plies of a record list, in the list's order.
PliesOf(analyses) == [i \in 1..Len(analyses) |-> analyses[i].ply]

\* The members of a set of plies in ascending order.
RECURSIVE Ascending(_)
Ascending(S) ==
    IF S = {} THEN <<>>
    ELSE LET m == CHOOSE x \in S : \A y \in S : x <= y
         IN <<m>> \o Ascending(S \ {m})

\* C1: an engine that cannot be started for one game is that game's failure
\* only: analyze_all_games never ends by raising, and when it ends every
\* game of the input has been analysed.
C1_EngineFailureIsPerGame ==
    /\ status # "raised"
    /\ status = "returned" => \A g \in 1..NumGames : Len(calls[g]) = 1

C3_HitKeepsOwnMoveFields ==
    \A c \in CallsOfRun :
        (~c.call.raised /\ ~c.call.gc_hit /\ c.call.hits > 0) =>
            \A i \in 1..Len(c.call.analyses) :
                LET a == c.call.analyses[i]
                IN /\ a.game_id = c.game.game_id
                   /\ a.ply \in 1..Len(c.game.moves_san)
                   /\ a.move_san = c.game.moves_san[a.ply]
                   /\ a.move_uci = Uci(c.game.moves_san[a.ply])
                   /\ a.clock_time = ClockAt(c.game, a.ply)

\* C5: a game-cache hit returns the cached records and nothing else
\* happens: no engine is created, no position is looked up in or written to
\* the position cache, no position is evaluated.
C5_GameCacheHitSkipsEverything ==
    \A c \in CallsOfRun :
        c.call.gc_hit =>
            /\ ~c.call.raised
            /\ ~c.call.engine_created
            /\ c.call.lookups = {}
            /\ c.call.evaluated = {}
            /\ c.call.written = 0
            /\ c.call.hits = 0 /\ c.call.misses = 0
            /\ c.call.analyses = MapSeq(c.call.gc_data.analyses, MoveAnalysisFromDict)

C5_Witness ==
    \E c \in CallsOfRun : c.call.gc_hit /\ c.call.analyses # <<>>

\* A game-cache file that is unreadable, malformed or of another version.
Unusable(data) ==
    \/ data.form \in {"unreadable", "not_object", "bad_record"}
    \/ data.form = "object" /\ data.cache_version # CACHE_VERSION

C7_ResumeReusesEarlierRuns ==
    config.resume =>
        \A c \in CallsOfRun : c.call.evaluated \cap prevKeys = {}

\* C4: in pool mode no game is analysed twice and no two workers hold the
\* same game; when analyze_all_games returns, every game was analysed
\* exactly once, by one worker, the merged list holds each game's records
\* exactly once, and the totals are the sums of the per-game counts.
GameOrders ==
    { p \in [1..NumGames -> 1..NumGames] : \A i, j \in 1..NumGames : p[i] = p[j] => i = j }

AnalysesOfGame(g) == calls[g][1].analyses
HitsOfGame(g) == calls[g][1].hits
MissesOfGame(g) == calls[g][1].misses

C4_EachGameOnce ==
    /\ \A g \in 1..NumGames : Len(calls[g]) <= 1
    /\ \A v, w \in Workers :
          (v # w /\ workers[v].state = "busy" /\ workers[w].state = "busy")
             => workers[v].task # workers[w].task
    /\ status = "returned" =>
          /\ \A g \in 1..NumGames :
                Len(calls[g]) = 1 /\ calls[g][1].who \in Workers
          /\ \E p \in GameOrders : all_analyses = Flatten([i \in 1..NumGames |-> AnalysesOfGame(p[i])])
          /\ total_hits = SumSeq([g \in 1..NumGames |-> HitsOfGame(g)])
          /\ total_misses = SumSeq([g \in 1..NumGames |-> MissesOfGame(g)])

C4_Witness ==
    /\ status = "returned"
    /\ \E g, h \in 1..NumGames :
          /\ g # h
          /\ calls[g][1].who # calls[h][1].who
          /\ calls[g][1].analyses # <<>> /\ calls[h][1].analyses # <<>>
    /\ total_misses > 0

\* The clamped projection of an evaluation: a mate is +1500 or -1500 by its
\* sign, a centipawn score is cut to the range -1500..1500.
Clamped(ev) ==
    IF ev.kind = "mate" THEN (IF ev.value > 0 THEN 1500 ELSE 0 - 1500)
    ELSE IF ev.value > 1500 THEN 1500
    ELSE IF ev.value < 0 - 1500 THEN 0 - 1500
    ELSE ev.value

\* C12: every record analyze_game returns, fresh or from a cache, has
\* cpl >= 0 and cpl = max(0, clamped eval_best - clamped eval_after).
C12_CplIsClampedLoss ==
    \A c \in CallsOfRun :
        ~c.call.raised =>
            \A i \in 1..Len(c.call.analyses) :
                LET a == c.call.analyses[i]
                    d == Clamped(a.eval_best) - Clamped(a.eval_after)
                IN /\ a.cpl >= 0
                   /\ a.cpl = IF d > 0 THEN d ELSE 0

\* A record with a mate after the move that came from the game cache, next
\* to a record whose move gained on the best evaluation.
C12_Witness ==
    /\ \E c \in CallsOfRun : \E i \in 1..Len(c.call.analyses) :
          LET a == c.call.analyses[i]
          IN c.call.gc_hit /\ a.eval_after.kind = "mate" /\ a.cpl > 0
    /\ \E c \in CallsOfRun : \E i \in 1..Len(c.call.analyses) :
          LET a == c.call.analyses[i]
          IN Clamped(a.eval_best) < Clamped(a.eval_after) /\ a.cpl = 0

\* C15: a call of analyze_game that analyses the game afresh emits no
\* record for a ply whose move cannot be parsed, and emits a record for
\* every other evaluated ply that did not fail, the plies after a bad one
\* included.
C15_BadPlySkippedOthersKept ==
    \A c \in CallsOfRun :
        (~c.call.raised /\ ~c.call.gc_hit) =>
            LET plies == { c.call.analyses[i].ply : i \in 1..Len(c.call.analyses) }
                bad == { p \in 1..Len(c.game.moves_san) :
                            ~ParseSanOk(c.game.moves_san[p]) }
            IN /\ plies \cap bad = {}
               /\ (EvaluatedPlies(c.game, config) \ (bad \cup c.call.failed))
                     \subseteq plies

\* C22: every game-cache file that analyze_game wrote holds the complete
\* analysis of its game: one record for every ply the game was to have
\* evaluated under the file's settings, in ascending ply order, so that no
\* analysis with a failed ply is stored and served as a hit later.
C22_GameCacheHoldsCompleteAnalysis ==
    \A g \in 1..Len(games), both \in BOOLEAN :
        LET cfg == Config(1, FALSE, FALSE, both)
            key == make_game_cache_key(games[g].game_id, cfg)
        IN key \in DOMAIN gcfiles =>
              [i \in 1..Len(gcfiles[key].analyses) |-> gcfiles[key].analyses[i].ply]
                 = Ascending(EvaluatedPlies(games[g], cfg))

\* The evaluation of a position as the side that moves at a ply sees it.
MoverEval(fen, ply) == to_cp_clamped(normalize_eval(OracleEval(fen), SideToMove(ply)))

\* C23: the centipawn-loss of every record analyze_game evaluates afresh,
\* the opponent's plies in both-sides mode included, is the loss from the
\* mover's side: max(0, d) for d the clamped evaluation of the position
\* before the move less the one after it, both as the mover sees them.
C23_CplIsTheMoversLoss ==
    \A c \in CallsOfRun :
        (~c.call.raised /\ ~c.call.gc_hit /\ c.call.hits = 0) =>
            \A i \in 1..Len(c.call.analyses) :
                LET a == c.call.analyses[i]
                    d == MoverEval(a.fen_before, a.ply)
                         - MoverEval(Append(a.fen_before, a.move_san), a.ply)
                IN a.cpl = Max(0, d)

\* The workers whose initializer has run.
Initialised == { w \in Workers : workers[w].state # "uninit" }

\* C24: in pool mode the workers get different worker ids, whatever the
\* order of the initializers, and so different cache files: a worker's file
\* holds the entries that worker appended and no other, one line for each
\* key of the worker's own cache dict.
C24_WorkersOwnTheirCacheFile ==
    /\ \A v, w \in Initialised :
          v # w => /\ workers[v].worker_id # workers[w].worker_id
                   /\ workers[v].cache_path # workers[w].cache_path
    /\ \A w \in Initialised :
          /\ workers[w].cache_path > MaxRuns
          /\ FileKeys(posFiles[workers[w].cache_path]) = DOMAIN workers[w].cache
          /\ Len(posFiles[workers[w].cache_path]) = Cardinality(DOMAIN workers[w].cache)

\* Two workers have each evaluated a position the other has evaluated too
\* and written it to their own file.
C24_Witness ==
    \E v, w \in Initialised :
        /\ v # w
        /\ DOMAIN workers[v].cache \cap DOMAIN workers[w].cache # {}
        /\ posFiles[workers[v].cache_path] # <<>>
        /\ posFiles[workers[w].cache_path] # <<>>

\* C25: when analyze_all_games returns in pool mode, every position a
\* worker evaluated during the run is in the run's position cache, the
\* file analysis/cache.jsonl of the run directory.
C25_WorkerCachesAreMerged ==
    (status = "returned" /\ config.workers > 1) =>
        \A c \in CallsOfRun :
            c.call.evaluated \subseteq FileKeys(posFiles[run_dir])

\* A single-process run is under way or has ended.
SingleRun == run >= 1 /\ config.workers <= 1

PlayerPly(game, ply) == (ply % 2 = 1) <=> (game.player_color = "WHITE")

\* The plies of the records of a call, as a set.
PlySet(analyses) == { analyses[i].ply : i \in 1..Len(analyses) }

FreshRecords(game, cfg) ==
    LET r == analyze_game(game, WorkerConfig(cfg), <<>>, <<>>, <<>>,
                          [engine_starts |-> TRUE, fail |-> {}])
    IN MapSeq(MapSeq(r.analyses, MoveAnalysisToDict), MoveAnalysisFromDict)

RecordSet(analyses) == { analyses[i] : i \in 1..Len(analyses) }

\* No engine call of the run failed.
NothingFailed ==
    \A g \in 1..NumGames : \A k \in 1..Len(calls[g]) : calls[g][k].failed = {}

\* C30: with no engine failure, the set of records a pool run returns is
\* the same whichever worker analysed which game: it is the set returned
\* when every game goes to a worker of its own.
C30_RecordsIndependentOfAssignment ==
    (status = "returned" /\ config.workers > 1 /\ NothingFailed) =>
        RecordSet(all_analyses) =
            UNION { RecordSet(FreshRecords(games[g], config)) : g \in 1..NumGames }

\* A returned run in which every game went to a worker of its own.
C30_OwnWorkerEach ==
    /\ status = "returned" /\ config.workers > 1 /\ NothingFailed
    /\ \A g \in 1..NumGames : Len(calls[g]) = 1
    /\ \A g, h \in 1..NumGames : g # h => calls[g][1].who # calls[h][1].who
    /\ RecordSet(all_analyses) =
            UNION { RecordSet(FreshRecords(games[g], config)) : g \in 1..NumGames }

====
